---- MODULE Spec2Model ----
(***************************************************************************)
(* Model of the gnashblade trading-post tracker: the items table of        *)
(* lib/database.py with its write paths (upsert_items,                     *)
(* update_item_history_bulk, recompute_derived_metrics,                    *)
(* update_item_order_book_bulk, update_vendor_values), the numeric helpers *)
(* of lib/calculator.py they call, the history fan-out of lib/api.py and   *)
(* the update cycle of gw2_trader.py.                                      *)
(*                                                                         *)
(* Representation.  A nullable column holds Null (<<>>, SQL NULL / Python  *)
(* None) or a one-element tuple <<v>> for an INTEGER or TEXT-timestamp     *)
(* value.  A REAL column holds Null or an exact fraction <<n, d>> in       *)
(* lowest terms with d > 0; float("inf") is <<1, 0>>.  Python computes     *)
(* these values in IEEE doubles; the model computes the same expressions   *)
(* exactly, so it is blind to rounding but not to which inputs are read.   *)
(***************************************************************************)
EXTENDS Integers, Sequences, FiniteSets, TLC

VARIABLES
    items,      \* the committed items table: stored id -> row
    prev,       \* the table as it was before the last store operation
    lastOp,     \* the last store operation, its argument, and the one before it
    clock,      \* datetime.utcnow(), advancing with every store operation
    bIds,       \* fetch_history_batch: item_ids
    bMax,       \* fetch_history_batch: max_concurrent
    bpc,        \* fetch_history_batch: where the call is
    sem,        \* fetch_history_batch: the semaphore's value
    tpc,        \* fetch_history_batch: where each task of the gather is
    tout,       \* fetch_history_batch: what each task's fetch_history did
    tres,       \* fetch_history_batch: what each task returned or raised
    bret,       \* fetch_history_batch: the mapping returned
    tx,         \* the write transaction a Database method has open, if any
    seen,       \* what a reader's SELECT fetched in the step just taken
    pc,         \* _run_update_cycle: where each process running a cycle is
    cyc,        \* _run_update_cycle: the arguments and locals of each process
    budget,     \* the cycles each process may still start
    upstream,   \* what the history service answers for each item id
    books,      \* the order books the listings service answers with
    call        \* the last call of cmd_flips or of a calculator function

storeVars == <<items, prev, lastOp, clock>>

batchVars == <<bIds, bMax, bpc, sem, tpc, tout, tres, bret>>

txVars == <<tx, seen>>

cycleVars == <<pc, cyc, budget, upstream, books>>

callVars == <<call>>

vars == <<storeVars, batchVars, txVars, cycleVars, callVars>>

-----------------------------------------------------------------------------
(* Bounds *)

\* Number of store operations in a run of the store-level specification.
MaxOps == 5

\* Largest max_concurrent handed to fetch_history_batch.
MaxConcurrent == 2

\* Number of write transactions in a run of the transaction-level
\* specification.
MaxTx == 3

\* Number of update cycles run one after the other on one store.
MaxCycles == 2

\* Largest sell price passed to calc_percent_profit.
MaxPrice == 45

\* Length of the histories enumerated in full for the calculators.
MaxDays == 8

\* Listings on one side of the order books passed to the depth scorer.
MaxListings == 3

\* Largest max_retries of a client (the default is 3).
MaxRetries == 3

\* Cycles of one run of the watch loop.
MaxWatchCycles == 4

-----------------------------------------------------------------------------
(* Values *)

Null == <<>>

Some(v) == <<v>>

RECURSIVE Gcd(_, _)
Gcd(a, b) == IF b = 0 THEN a ELSE Gcd(b, a % b)

Abs(x) == IF x < 0 THEN -x ELSE x

\* The fraction n/d (d # 0) in lowest terms with a positive denominator.
Rat(n, d) ==
    LET g == Gcd(Abs(n), Abs(d))
        s == IF d < 0 THEN -1 ELSE 1
    IN  <<(s * n) \div g, (s * d) \div g>>

Zero == <<0, 1>>

Inf == <<1, 0>>

RatInt(n) == <<n, 1>>

RatMul(a, b) == Rat(a[1] * b[1], a[2] * b[2])

RatAdd(a, b) == Rat(a[1] * b[2] + b[1] * a[2], a[2] * b[2])

RatDivInt(a, k) == Rat(a[1], a[2] * k)

RatSub(a, b) == Rat(a[1] * b[2] - b[1] * a[2], a[2] * b[2])

RatDiv(a, b) == Rat(a[1] * b[2], a[2] * b[1])

RatLess(a, b) == a[1] * b[2] < b[1] * a[2]

\* Python's `x or 0` on a nullable float.
OrZeroRat(col) == IF col = Null THEN Zero ELSE col

RatLeqZero(a) == a[1] <= 0

RatPositive(a) == a[1] > 0

Min(a, b) == IF a <= b THEN a ELSE b

Max(a, b) == IF a >= b THEN a ELSE b

\* Python's `x or 0` on a nullable integer column.
OrZero(col) == IF col = Null THEN 0 ELSE col[1]

-----------------------------------------------------------------------------
(* lib/calculator.py *)

\* Mutation of ListingFee: the fee is rounded to the nearest copper instead of
\* truncated.
ListingFeeRounded(sell_price) == Max(1, (sell_price * 5 + 50) \div 100)

\* max(1, int(sell_price * 0.05)); int(s * 0.05) = s // 20 for every
\* 0 < s < 2,000,000 in IEEE doubles.
ListingFee(sell_price) == Max(1, (sell_price * 5) \div 100)

\* max(1, int(sell_price * 0.10))
ExchangeFee(sell_price) == Max(1, (sell_price * 10) \div 100)

Cost(buy_price) == buy_price + 1

Revenue(sell_price) ==
    sell_price - 1 - ListingFee(sell_price) - ExchangeFee(sell_price)

\* Mutation of calc_percent_profit: the vendor floor is compared with <
\* instead of <=.
calc_percent_profit_strict_floor(buy_price, sell_price, vendor_value) ==
    IF buy_price <= 0 \/ sell_price <= 0 THEN Zero
    ELSE IF vendor_value # Null /\ buy_price < vendor_value[1] THEN Zero
    ELSE IF Revenue(sell_price) <= Cost(buy_price) THEN Zero
    ELSE IF vendor_value # Null /\ Revenue(sell_price) < vendor_value[1] THEN Zero
    ELSE Rat((Revenue(sell_price) - Cost(buy_price)) * 100, Cost(buy_price))

\* calc_percent_profit(buy_price, sell_price, vendor_value); vendor_value is
\* a nullable column value.
calc_percent_profit(buy_price, sell_price, vendor_value) ==
    IF buy_price <= 0 \/ sell_price <= 0 THEN Zero
    ELSE IF vendor_value # Null /\ buy_price <= vendor_value[1] THEN Zero
    ELSE IF Revenue(sell_price) <= Cost(buy_price) THEN Zero
    ELSE IF vendor_value # Null /\ Revenue(sell_price) <= vendor_value[1] THEN Zero
    ELSE Rat((Revenue(sell_price) - Cost(buy_price)) * 100, Cost(buy_price))

\* calc_flip_score on the buy-side quantity alone.
calc_flip_score_by_buy_quantity(buy_sold_qty, sell_sold_qty, buy_price, percent_profit) ==
    IF RatLeqZero(percent_profit) THEN Zero
    ELSE RatMul(RatInt(buy_sold_qty * buy_price), RatDivInt(percent_profit, 100))

\* calc_flip_score(buy_sold_qty, sell_sold_qty, buy_price, percent_profit)
calc_flip_score(buy_sold_qty, sell_sold_qty, buy_price, percent_profit) ==
    IF RatLeqZero(percent_profit) THEN Zero
    ELSE RatMul(RatInt(Min(buy_sold_qty, sell_sold_qty) * buy_price),
                RatDivInt(percent_profit, 100))

-----------------------------------------------------------------------------
(* The items table, lib/database.py *)

Ids == {1, 2}

RawFields ==
    {"name", "buy_price", "sell_price", "buy_quantity", "sell_quantity"}

SoldFields ==
    {"buy_sold_1d", "sell_sold_1d", "buy_sold_7d", "sell_sold_7d",
     "buy_sold_30d", "sell_sold_30d"}

VelocityFields ==
    {"buy_velocity_1d", "sell_velocity_1d", "buy_velocity_7d",
     "sell_velocity_7d", "buy_velocity_30d", "sell_velocity_30d"}

RatioFields == {"buy_competition_ratio", "sell_competition_ratio"}

YesterdayFields == {"buy_price_min_yesterday", "sell_price_max_yesterday"}

OrderBookFields == {"competition_gold", "competition_tiers"}

\* The columns update_item_history_bulk sets.
HistoryFields ==
    SoldFields \cup RatioFields \cup YesterdayFields
        \cup {"price_pressure", "velocity_updated"}

\* The columns recompute_derived_metrics sets.
RecomputeFields == VelocityFields \cup {"flip_score"}

\* The columns upsert_items sets on a stored row.
UpsertFields == RawFields \cup {"vendor_value", "price_updated"}

\* Every column of the items table but the key.
Columns ==
    UpsertFields \cup HistoryFields \cup RecomputeFields \cup OrderBookFields

\* The derived fields of an item: everything a raw price re-ingest must keep.
DerivedFields ==
    (HistoryFields \ {"velocity_updated"}) \cup RecomputeFields
        \cup OrderBookFields

\* Mutation of Coalesce: vendor_value = excluded.vendor_value.
CoalesceExcluded(new, old) == new

\* COALESCE(excluded.vendor_value, items.vendor_value)
Coalesce(new, old) == IF new # Null THEN new ELSE old

\* The row INSERT INTO items (id, name, ..., price_updated) creates.
InsertRow(ip, now) ==
    [c \in Columns |->
        CASE c = "name" -> ip.name
          [] c = "buy_price" -> ip.buy_price
          [] c = "sell_price" -> ip.sell_price
          [] c = "buy_quantity" -> ip.buy_quantity
          [] c = "sell_quantity" -> ip.sell_quantity
          [] c = "vendor_value" -> ip.vendor_value
          [] c = "price_updated" -> Some(now)
          [] OTHER -> Null]

\* Mutation of ConflictRow: INSERT OR REPLACE, which rewrites the whole row.
ConflictRowReplace(row, ip, now) == InsertRow(ip, now)

\* ON CONFLICT(id) DO UPDATE SET ...
ConflictRow(row, ip, now) ==
    [row EXCEPT
        !.name = ip.name,
        !.buy_price = ip.buy_price,
        !.sell_price = ip.sell_price,
        !.buy_quantity = ip.buy_quantity,
        !.sell_quantity = ip.sell_quantity,
        !.vendor_value = Coalesce(ip.vendor_value, @),
        !.price_updated = Some(now)]

\* One INSERT ... ON CONFLICT statement of upsert_items.
UpsertOne(tbl, ip, now) ==
    [i \in DOMAIN tbl \cup {ip.id} |->
        IF i # ip.id THEN tbl[i]
        ELSE IF i \in DOMAIN tbl THEN ConflictRow(tbl[i], ip, now)
        ELSE InsertRow(ip, now)]

RECURSIVE UpsertAll(_, _, _)
UpsertAll(tbl, batch, now) ==
    IF batch = <<>> THEN tbl
    ELSE UpsertAll(UpsertOne(tbl, Head(batch), now), Tail(batch), now)

\* Database.upsert_items(items): the table after the commit.
upsert_items(tbl, batch, now) ==
    IF batch = <<>> THEN tbl ELSE UpsertAll(tbl, batch, now)

\* Mutation of HistoryUpdateOne: the history write also clears the flip score
\* it has made stale.
HistoryUpdateOneClearsScore(tbl, u, now) ==
    [i \in DOMAIN tbl |->
        IF i # u.id THEN tbl[i]
        ELSE [tbl[i] EXCEPT
                !.buy_sold_1d = u.buy_sold_1d,
                !.sell_sold_1d = u.sell_sold_1d,
                !.buy_sold_7d = u.buy_sold_7d,
                !.sell_sold_7d = u.sell_sold_7d,
                !.buy_sold_30d = u.buy_sold_30d,
                !.sell_sold_30d = u.sell_sold_30d,
                !.buy_competition_ratio = u.buy_competition_ratio,
                !.sell_competition_ratio = u.sell_competition_ratio,
                !.price_pressure = u.price_pressure,
                !.buy_price_min_yesterday = u.buy_price_min_yesterday,
                !.sell_price_max_yesterday = u.sell_price_max_yesterday,
                !.flip_score = Null,
                !.velocity_updated = Some(now)]]

\* One UPDATE items SET <history columns> WHERE id = ? of
\* update_item_history_bulk.
HistoryUpdateOne(tbl, u, now) ==
    [i \in DOMAIN tbl |->
        IF i # u.id THEN tbl[i]
        ELSE [tbl[i] EXCEPT
                !.buy_sold_1d = u.buy_sold_1d,
                !.sell_sold_1d = u.sell_sold_1d,
                !.buy_sold_7d = u.buy_sold_7d,
                !.sell_sold_7d = u.sell_sold_7d,
                !.buy_sold_30d = u.buy_sold_30d,
                !.sell_sold_30d = u.sell_sold_30d,
                !.buy_competition_ratio = u.buy_competition_ratio,
                !.sell_competition_ratio = u.sell_competition_ratio,
                !.price_pressure = u.price_pressure,
                !.buy_price_min_yesterday = u.buy_price_min_yesterday,
                !.sell_price_max_yesterday = u.sell_price_max_yesterday,
                !.velocity_updated = Some(now)]]

RECURSIVE HistoryUpdateAll(_, _, _)
HistoryUpdateAll(tbl, updates, now) ==
    IF updates = <<>> THEN tbl
    ELSE HistoryUpdateAll(HistoryUpdateOne(tbl, Head(updates), now),
                          Tail(updates), now)

\* Database.update_item_history_bulk(updates)
update_item_history_bulk(tbl, updates, now) ==
    IF updates = <<>> THEN tbl ELSE HistoryUpdateAll(tbl, updates, now)

\* Mutation of DerivedOfRow: the flip score is computed from the stored 1-day
\* velocities (outputs of an earlier run) instead of the sold quantities.
DerivedOfRowFromVelocity(row) ==
    LET buy_price == OrZero(row.buy_price)
        sell_price == OrZero(row.sell_price)
        buy_vel == IF row.buy_velocity_1d = Null THEN Zero ELSE row.buy_velocity_1d
        sell_vel == IF row.sell_velocity_1d = Null THEN Zero ELSE row.sell_velocity_1d
        slower == IF buy_vel[1] * sell_vel[2] <= sell_vel[1] * buy_vel[2]
                  THEN buy_vel ELSE sell_vel
    IN  [buy_velocity_1d |-> Rat(OrZero(row.buy_sold_1d) * buy_price, 10000),
         sell_velocity_1d |-> Rat(OrZero(row.sell_sold_1d) * sell_price, 10000),
         buy_velocity_7d |-> Rat(OrZero(row.buy_sold_7d) * buy_price, 7 * 10000),
         sell_velocity_7d |-> Rat(OrZero(row.sell_sold_7d) * sell_price, 7 * 10000),
         buy_velocity_30d |-> Rat(OrZero(row.buy_sold_30d) * buy_price, 30 * 10000),
         sell_velocity_30d |-> Rat(OrZero(row.sell_sold_30d) * sell_price, 30 * 10000),
         flip_score |->
            IF buy_price > 0 /\ sell_price > 0
            THEN RatMul(slower,
                        calc_percent_profit(buy_price, sell_price,
                                            row.vendor_value))
            ELSE Zero]

\* The tuple recompute_derived_metrics appends to `updates` for one row it
\* has read: the six velocities and the flip score.
DerivedOfRow(row) ==
    LET buy_price == OrZero(row.buy_price)
        sell_price == OrZero(row.sell_price)
        buy_sold_1d == OrZero(row.buy_sold_1d)
        sell_sold_1d == OrZero(row.sell_sold_1d)
        buy_sold_7d == OrZero(row.buy_sold_7d)
        sell_sold_7d == OrZero(row.sell_sold_7d)
        buy_sold_30d == OrZero(row.buy_sold_30d)
        sell_sold_30d == OrZero(row.sell_sold_30d)
    IN  [buy_velocity_1d |-> Rat(buy_sold_1d * buy_price, 10000),
         sell_velocity_1d |-> Rat(sell_sold_1d * sell_price, 10000),
         buy_velocity_7d |-> Rat(buy_sold_7d * buy_price, 7 * 10000),
         sell_velocity_7d |-> Rat(sell_sold_7d * sell_price, 7 * 10000),
         buy_velocity_30d |-> Rat(buy_sold_30d * buy_price, 30 * 10000),
         sell_velocity_30d |-> Rat(sell_sold_30d * sell_price, 30 * 10000),
         flip_score |->
            IF buy_price > 0 /\ sell_price > 0
            THEN calc_flip_score(
                    buy_sold_1d, sell_sold_1d, buy_price,
                    calc_percent_profit(buy_price, sell_price, row.vendor_value))
            ELSE Zero]

\* The SELECT of recompute_derived_metrics and the loop over its rows: the
\* update computed for every row read.
RecomputeRead(tbl) == [i \in DOMAIN tbl |-> DerivedOfRow(tbl[i])]

\* An UPDATE that fills the derived columns only where they are still null.
RecomputeWriteOnce(tbl, updates) ==
    [i \in DOMAIN tbl |->
        IF i \notin DOMAIN updates \/ tbl[i].flip_score # Null THEN tbl[i]
        ELSE [tbl[i] EXCEPT
                !.buy_velocity_1d = updates[i].buy_velocity_1d,
                !.sell_velocity_1d = updates[i].sell_velocity_1d,
                !.buy_velocity_7d = updates[i].buy_velocity_7d,
                !.sell_velocity_7d = updates[i].sell_velocity_7d,
                !.buy_velocity_30d = updates[i].buy_velocity_30d,
                !.sell_velocity_30d = updates[i].sell_velocity_30d,
                !.flip_score = updates[i].flip_score]]

\* The executemany UPDATE of recompute_derived_metrics: each computed update
\* is written WHERE id = ?, onto the table as it is at the time of the write.
RecomputeWrite(tbl, updates) ==
    [i \in DOMAIN tbl |->
        IF i \notin DOMAIN updates THEN tbl[i]
        ELSE [tbl[i] EXCEPT
                !.buy_velocity_1d = updates[i].buy_velocity_1d,
                !.sell_velocity_1d = updates[i].sell_velocity_1d,
                !.buy_velocity_7d = updates[i].buy_velocity_7d,
                !.sell_velocity_7d = updates[i].sell_velocity_7d,
                !.buy_velocity_30d = updates[i].buy_velocity_30d,
                !.sell_velocity_30d = updates[i].sell_velocity_30d,
                !.flip_score = updates[i].flip_score]]

\* Database.recompute_derived_metrics() run without interruption.
recompute_derived_metrics(tbl) == RecomputeWrite(tbl, RecomputeRead(tbl))

\* One UPDATE items SET competition_gold, competition_tiers WHERE id = ?
OrderBookUpdateOne(tbl, u) ==
    [i \in DOMAIN tbl |->
        IF i # u.id THEN tbl[i]
        ELSE [tbl[i] EXCEPT
                !.competition_gold = u.competition_gold,
                !.competition_tiers = u.competition_tiers]]

RECURSIVE OrderBookUpdateAll(_, _)
OrderBookUpdateAll(tbl, updates) ==
    IF updates = <<>> THEN tbl
    ELSE OrderBookUpdateAll(OrderBookUpdateOne(tbl, Head(updates)),
                            Tail(updates))

\* Database.update_item_order_book_bulk(updates)
update_item_order_book_bulk(tbl, updates) ==
    IF updates = <<>> THEN tbl ELSE OrderBookUpdateAll(tbl, updates)

\* update_vendor_values as INSERT OR REPLACE INTO items (id, vendor_value).
update_vendor_values_or_insert(tbl, vendor_values) ==
    [i \in DOMAIN tbl \cup DOMAIN vendor_values |->
        IF i \notin DOMAIN vendor_values THEN tbl[i]
        ELSE [c \in Columns |->
                IF c = "vendor_value" THEN Some(vendor_values[i]) ELSE Null]]

\* Database.update_vendor_values(vendor_values): vendor_values is a dict,
\* here a function id -> integer; its keys are distinct, so the order of the
\* UPDATE statements does not matter.
update_vendor_values(tbl, vendor_values) ==
    [i \in DOMAIN tbl |->
        IF i \in DOMAIN vendor_values
        THEN [tbl[i] EXCEPT !.vendor_value = Some(vendor_values[i])]
        ELSE tbl[i]]

-----------------------------------------------------------------------------
(* Inputs of the store operations *)

\* ItemPrice records as the callers build them (lib/models.py ItemPrice).
ItemPrice(id, name, bp, sp, bq, sq, vendor) ==
    [id |-> id, name |-> name, buy_price |-> bp, sell_price |-> sp,
     buy_quantity |-> bq, sell_quantity |-> sq, vendor_value |-> vendor]

IPBase(id) == ItemPrice(id, "Item", Some(100), Some(200), Some(5), Some(7), Null)

IPMoved(id) ==
    ItemPrice(id, "Item renamed", Some(110), Some(220), Some(6), Some(8), Null)

IPVendor(id) ==
    ItemPrice(id, "Item", Some(100), Some(200), Some(5), Some(7), Some(50))

IPBare(id) == ItemPrice(id, "Item", Null, Null, Null, Null, Null)

PriceBatches ==
    { <<>>,
      <<IPBase(1)>>,
      <<IPMoved(1)>>,
      <<IPVendor(1), IPBase(2)>>,
      <<IPBare(2)>>,
      <<IPBase(2), IPMoved(2)>> }

\* HistoryUpdateRow tuples (lib/database.py), as records.
HistoryUpdateRow(id, b1, s1, b7, s7, b30, s30, br, sr, pp, floor, ceil) ==
    [id |-> id,
     buy_sold_1d |-> Some(b1), sell_sold_1d |-> Some(s1),
     buy_sold_7d |-> Some(b7), sell_sold_7d |-> Some(s7),
     buy_sold_30d |-> Some(b30), sell_sold_30d |-> Some(s30),
     buy_competition_ratio |-> br, sell_competition_ratio |-> sr,
     price_pressure |-> pp,
     buy_price_min_yesterday |-> floor, sell_price_max_yesterday |-> ceil]

HURTest(id) ==
    HistoryUpdateRow(id, 5, 10, 35, 70, 150, 300, RatInt(1), RatInt(1), Zero,
                     Some(99), Some(205))

HURAlt(id) ==
    HistoryUpdateRow(id, 3, 4, 8, 15, 31, 61, Rat(5, 2), Inf, Rat(-1, 100),
                     Null, Some(255))

HistoryBatches ==
    { <<>>,
      <<HURTest(1)>>,
      <<HURAlt(1), HURTest(2)>>,
      <<HURAlt(2)>> }

\* OrderBookUpdateRow tuples (lib/database.py), as records.
OrderBookUpdateRow(id, gold, tiers) ==
    [id |-> id, competition_gold |-> gold, competition_tiers |-> Some(tiers)]

OrderBookBatches ==
    { <<>>,
      <<OrderBookUpdateRow(1, Rat(241, 2), 4)>>,
      <<OrderBookUpdateRow(1, RatInt(42), 2), OrderBookUpdateRow(2, RatInt(42), 2)>> }

VendorDicts == { (1 :> 50), (1 :> 0 @@ 2 :> 50) }

-----------------------------------------------------------------------------
(* History entries, lib/models.py, and the history fan-out, lib/api.py *)

\* HistoryEntry with the fields the calculators read.
HistoryEntry(bs, ss, bl, sl, bd, sd, bavg, savg, bmin, smax) ==
    [buy_sold |-> bs, sell_sold |-> ss, buy_listed |-> bl, sell_listed |-> sl,
     buy_delisted |-> bd, sell_delisted |-> sd,
     buy_price_avg |-> bavg, sell_price_avg |-> savg,
     buy_price_min |-> bmin, sell_price_max |-> smax,
     buy_value |-> 0, sell_value |-> 0]

\* The entry with the traded values the response carries.
WithValues(entry, bv, sv) == [entry EXCEPT !.buy_value = bv, !.sell_value = sv]

EntryToday ==
    HistoryEntry(5, 10, 20, 10, 1, 2, RatInt(100), RatInt(190), Some(98), Some(201))

EntryYesterday ==
    HistoryEntry(4, 0, 8, 6, 0, 0, RatInt(99), RatInt(205), Some(99), Some(205))

\* [h.buy_sold for h in history if h.buy_sold]: the non-zero values, in order.
NonZero(values) == SelectSeq(values, LAMBDA v : v # 0)

\* sum(values[:n])
RECURSIVE SumFirst(_, _)
SumFirst(values, n) ==
    IF n = 0 \/ values = <<>> THEN 0
    ELSE Head(values) + SumFirst(Tail(values), n - 1)

\* calc_quantity_sold(history): (buy_sold_1d, sell_sold_1d, buy_sold_7d,
\* sell_sold_7d, buy_sold_30d, sell_sold_30d) over the non-zero entries.
calc_quantity_sold(history) ==
    LET buy_quantities == NonZero([k \in DOMAIN history |-> history[k].buy_sold])
        sell_quantities == NonZero([k \in DOMAIN history |-> history[k].sell_sold])
    IN  IF history = <<>> THEN <<0, 0, 0, 0, 0, 0>>
        ELSE << IF buy_quantities # <<>> THEN buy_quantities[1] ELSE 0,
                IF sell_quantities # <<>> THEN sell_quantities[1] ELSE 0,
                IF buy_quantities # <<>> THEN SumFirst(buy_quantities, 7) ELSE 0,
                IF sell_quantities # <<>> THEN SumFirst(sell_quantities, 7) ELSE 0,
                IF buy_quantities # <<>> THEN SumFirst(buy_quantities, 30) ELSE 0,
                IF sell_quantities # <<>> THEN SumFirst(sell_quantities, 30) ELSE 0 >>

\* calc_competition_ratio with 0.0 where the code has float("inf").
calc_competition_ratio_zero_unsold(history) ==
    IF history = <<>> THEN <<Zero, Zero>>
    ELSE LET entry == history[1]
         IN  << IF entry.buy_sold = 0 THEN Zero
                ELSE Rat(entry.buy_listed, entry.buy_sold),
                IF entry.sell_sold = 0 THEN Zero
                ELSE Rat(entry.sell_listed, entry.sell_sold) >>

\* calc_competition_ratio(history): (buy_ratio, sell_ratio) of the newest
\* entry.
calc_competition_ratio(history) ==
    IF history = <<>> THEN <<Zero, Zero>>
    ELSE LET entry == history[1]
         IN  << IF entry.buy_sold = 0 THEN Inf
                ELSE Rat(entry.buy_listed, entry.buy_sold),
                IF entry.sell_sold = 0 THEN Inf
                ELSE Rat(entry.sell_listed, entry.sell_sold) >>

\* calc_price_pressure without the delisted ratio.
calc_price_pressure_compression_only(history) ==
    IF Len(history) < 2 THEN Zero
    ELSE LET today == history[1]
             yesterday == history[2]
             today_buy_avg == OrZeroRat(today.buy_price_avg)
             today_sell_avg == OrZeroRat(today.sell_price_avg)
             yesterday_buy_avg == OrZeroRat(yesterday.buy_price_avg)
             yesterday_sell_avg == OrZeroRat(yesterday.sell_price_avg)
             spread_today == RatSub(today_sell_avg, today_buy_avg)
             spread_yesterday == RatSub(yesterday_sell_avg, yesterday_buy_avg)
         IN  IF RatLeqZero(today_buy_avg) \/ RatLeqZero(today_sell_avg) THEN Zero
             ELSE IF RatLeqZero(yesterday_buy_avg) \/ RatLeqZero(yesterday_sell_avg)
             THEN Zero
             ELSE IF RatLeqZero(spread_yesterday) THEN Zero
             ELSE RatDiv(RatSub(spread_yesterday, spread_today), spread_yesterday)

\* calc_price_pressure(history)
calc_price_pressure(history) ==
    IF Len(history) < 2 THEN Zero
    ELSE LET today == history[1]
             yesterday == history[2]
             today_buy_avg == OrZeroRat(today.buy_price_avg)
             today_sell_avg == OrZeroRat(today.sell_price_avg)
             yesterday_buy_avg == OrZeroRat(yesterday.buy_price_avg)
             yesterday_sell_avg == OrZeroRat(yesterday.sell_price_avg)
             spread_today == RatSub(today_sell_avg, today_buy_avg)
             spread_yesterday == RatSub(yesterday_sell_avg, yesterday_buy_avg)
             total_sold == today.buy_sold + today.sell_sold
             total_delisted == today.buy_delisted + today.sell_delisted
             delisted_ratio == IF total_sold > 0 THEN Rat(total_delisted, total_sold)
                               ELSE Zero
         IN  IF RatLeqZero(today_buy_avg) \/ RatLeqZero(today_sell_avg) THEN Zero
             ELSE IF RatLeqZero(yesterday_buy_avg) \/ RatLeqZero(yesterday_sell_avg)
             THEN Zero
             ELSE IF RatLeqZero(spread_yesterday) THEN Zero
             ELSE RatAdd(RatDiv(RatSub(spread_yesterday, spread_today),
                                spread_yesterday),
                         delisted_ratio)

\* get_yesterday_floor_prices(history): (buy_price_min, sell_price_max) of
\* the second entry.
get_yesterday_floor_prices(history) ==
    IF Len(history) < 2 THEN <<Null, Null>>
    ELSE <<history[2].buy_price_min, history[2].sell_price_max>>

\* sum of price * quantity over a list of orders
RECURSIVE OrderValue(_)
OrderValue(orders) ==
    IF orders = <<>> THEN 0
    ELSE Head(orders).unit_price * Head(orders).quantity + OrderValue(Tail(orders))

\* get_competition_metrics that also counts a listing at the floor.
get_competition_metrics_from_floor(order_book, buy_price_floor) ==
    IF buy_price_floor = Null \/ order_book.buys = <<>> THEN <<Zero, 0>>
    ELSE LET above == SelectSeq(order_book.buys,
                                LAMBDA o : o.unit_price >= buy_price_floor[1])
         IN  <<Rat(OrderValue(above), 10000), Len(above)>>

\* OrderBook.get_competition_metrics(buy_price_floor)
get_competition_metrics(order_book, buy_price_floor) ==
    IF buy_price_floor = Null \/ order_book.buys = <<>> THEN <<Zero, 0>>
    ELSE LET above == SelectSeq(order_book.buys,
                                LAMBDA o : o.unit_price > buy_price_floor[1])
         IN  <<Rat(OrderValue(above), 10000), Len(above)>>

\* OrderBook.get_sell_competition_metrics(sell_price_ceiling)
get_sell_competition_metrics(order_book, sell_price_ceiling) ==
    IF sell_price_ceiling = Null \/ order_book.sells = <<>> THEN <<Zero, 0>>
    ELSE LET below == SelectSeq(order_book.sells,
                                LAMBDA o : /\ o.unit_price < sell_price_ceiling[1]
                                           /\ o.unit_price > 0)
         IN  <<Rat(OrderValue(below), 10000), Len(below)>>

\* calc_order_book_competition(order_book, buy_price_floor,
\* sell_price_ceiling)
calc_order_book_competition(order_book, buy_price_floor, sell_price_ceiling) ==
    get_competition_metrics(order_book, buy_price_floor)
        \o get_sell_competition_metrics(order_book, sell_price_ceiling)

\* Histories newest first; the empty list is a valid fetch result.
Histories == { <<>>, <<EntryToday>>, <<EntryToday, EntryYesterday>> }

\* fetch_history raised (a transport error, a bad status, a malformed body).
Raised == "raised"

\* What one await of fetch_history can do.
FetchOutcomes == {[kind |-> Raised, entries |-> <<>>]}
                    \cup {[kind |-> "ok", entries |-> h] : h \in Histories}

\* Mutation of FetchWithSemaphore: no except clause, the exception leaves the
\* task.
FetchWithSemaphoreUncaught(item_id, outcome) ==
    IF outcome.kind = Raised
    THEN [kind |-> Raised, id |-> item_id, entries |-> <<>>]
    ELSE [kind |-> "ok", id |-> item_id, entries |-> outcome.entries]

\* fetch_with_semaphore(item_id), given what fetch_history did: the pair
\* (item_id, result), or (item_id, []) after any Exception.
FetchWithSemaphore(item_id, outcome) ==
    IF outcome.kind = Raised
    THEN [kind |-> "ok", id |-> item_id, entries |-> <<>>]
    ELSE [kind |-> "ok", id |-> item_id, entries |-> outcome.entries]

\* dict(results_list): one key per id, the last pair of an id wins.
DictOf(results) ==
    [i \in {results[k].id : k \in DOMAIN results} |->
        LET last == CHOOSE k \in DOMAIN results :
                        /\ results[k].id = i
                        /\ \A j \in DOMAIN results : results[j].id = i => j <= k
        IN  results[last].entries]

EmptyDict == [i \in {} |-> <<>>]

IdLists == { <<>>, <<1>>, <<2, 1>>, <<1, 2, 3>>, <<1, 2, 1>> }

\* A call fetch_history_batch(item_ids, days, max_concurrent) about to run,
\* beside an empty store.
BatchInit ==
    /\ items = [i \in {} |-> Null]
    /\ prev = [i \in {} |-> Null]
    /\ lastOp = [op |-> "init", arg |-> <<>>, after |-> "init"]
    /\ clock = 0
    /\ bIds \in IdLists
    /\ bMax \in 0..MaxConcurrent
    /\ bpc = "called"
    /\ sem = 0
    /\ tpc = <<>>
    /\ tout = <<>>
    /\ tres = <<>>
    /\ bret = EmptyDict
    /\ tx = [open |-> FALSE]
    /\ seen = [read |-> FALSE]
    /\ pc = [p \in {1, 2} |-> "idle"]
    /\ cyc = [p \in {1, 2} |-> [started |-> FALSE]]
    /\ budget = [p \in {1, 2} |-> 0]
    /\ upstream = [i \in {} |-> <<>>]
    /\ books = [i \in {} |-> <<>>]
    /\ call = [fn |-> "none"]

\* The body up to the gather: the early return for no ids, else the semaphore
\* and one task per requested id.
BatchStart ==
    /\ bpc = "called"
    /\ IF bIds = <<>>
       THEN /\ bpc' = "returned"
            /\ bret' = EmptyDict
            /\ UNCHANGED <<sem, tpc, tout, tres>>
       ELSE /\ bpc' = "gathering"
            /\ sem' = bMax
            /\ tpc' = [k \in DOMAIN bIds |-> "waiting"]
            /\ tout' = [k \in DOMAIN bIds |-> [kind |-> "none", entries |-> <<>>]]
            /\ tres' = [k \in DOMAIN bIds |-> [kind |-> "none", id |-> bIds[k], entries |-> <<>>]]
            /\ UNCHANGED bret
    /\ UNCHANGED <<bIds, bMax, storeVars, txVars, cycleVars, callVars>>

\* A task that starts its fetch without waiting for the semaphore.
TaskAcquireUnbounded(k) ==
    /\ bpc = "gathering"
    /\ tpc[k] = "waiting"
    /\ sem' = sem - 1
    /\ tpc' = [tpc EXCEPT ![k] = "fetching"]
    /\ UNCHANGED <<bIds, bMax, bpc, tout, tres, bret, storeVars, txVars, cycleVars, callVars>>

\* `async with semaphore`: a task enters when the semaphore's value is
\* positive and starts its fetch_history.
TaskAcquire(k) ==
    /\ bpc = "gathering"
    /\ tpc[k] = "waiting"
    /\ sem > 0
    /\ sem' = sem - 1
    /\ tpc' = [tpc EXCEPT ![k] = "fetching"]
    /\ UNCHANGED <<bIds, bMax, bpc, tout, tres, bret, storeVars, txVars, cycleVars, callVars>>

\* The await of fetch_history ends; the task builds its pair and leaves the
\* `async with`, releasing the semaphore.
TaskFinish(k, outcome) ==
    /\ bpc = "gathering"
    /\ tpc[k] = "fetching"
    /\ tout' = [tout EXCEPT ![k] = outcome]
    /\ tres' = [tres EXCEPT ![k] = FetchWithSemaphore(bIds[k], outcome)]
    /\ tpc' = [tpc EXCEPT ![k] = "done"]
    /\ sem' = sem + 1
    /\ UNCHANGED <<bIds, bMax, bpc, bret, storeVars, txVars, cycleVars, callVars>>

\* asyncio.gather(*tasks) without return_exceptions, then dict(results_list):
\* the first exception of a task is raised to the caller, else the results are
\* collected in the order of item_ids.
BatchGather ==
    /\ bpc = "gathering"
    /\ IF \E k \in DOMAIN tres : tres[k].kind = Raised
       THEN /\ bpc' = "raised"
            /\ UNCHANGED bret
       ELSE /\ \A k \in DOMAIN tpc : tpc[k] = "done"
            /\ bpc' = "returned"
            /\ bret' = DictOf(tres)
    /\ UNCHANGED <<bIds, bMax, sem, tpc, tout, tres, storeVars, txVars, cycleVars, callVars>>

BatchNext ==
    \/ BatchStart
    \/ \E k \in DOMAIN tpc : TaskAcquire(k)
    \/ \E k \in DOMAIN tpc : \E outcome \in FetchOutcomes : TaskFinish(k, outcome)
    \/ BatchGather

-----------------------------------------------------------------------------
(* Transactions and readers, lib/database.py *)

NoTx == [open |-> FALSE]

NoRead == [read |-> FALSE]

\* SELECT * FROM items WHERE id = ?
GetItemRows(tbl, item_id) == [i \in DOMAIN tbl \cap {item_id} |-> tbl[i]]

\* SELECT * FROM items
GetAllRows(tbl) == tbl

\* A comparison `column > 0` of SQL: false on NULL.
SqlPositive(col) == col # Null /\ col[1] > 0

\* SELECT * FROM items WHERE buy_price > 0 AND sell_price > 0
\*   AND buy_sold_1d > 0 AND sell_sold_1d > 0
WithVelocityRows(tbl) ==
    [i \in {j \in DOMAIN tbl :
                /\ SqlPositive(tbl[j].buy_price)
                /\ SqlPositive(tbl[j].sell_price)
                /\ SqlPositive(tbl[j].buy_sold_1d)
                /\ SqlPositive(tbl[j].sell_sold_1d)} |-> tbl[i]]

\* The rows the SELECT of a read method fetches from the committed table.
SelectRows(method, item_id, tbl) ==
    CASE method = "get_item" -> GetItemRows(tbl, item_id)
      [] method = "get_all_items" -> GetAllRows(tbl)
      [] method = "get_items_with_velocity" -> WithVelocityRows(tbl)

\* The fields of the Item dataclass, lib/models.py.
ItemFields ==
    (Columns \ {"flip_score"})
        \cup {"id", "listed_ratio", "delisted_ratio", "spread_percent"}

\* The keyword arguments _row_to_item passes to Item(...).
RowToItemKeywords == Columns \cup {"id"}

\* _row_to_item(row): Item(...) raises TypeError for a keyword that is not a
\* field of the dataclass.
RowToItemRaises == ~(RowToItemKeywords \subseteq ItemFields)

\* What a read method returns for the rows fetched: nothing to convert for no
\* rows, else the TypeError of _row_to_item or the converted rows.
ReadResult(rows) ==
    IF DOMAIN rows = {} THEN "no rows"
    ELSE IF RowToItemRaises THEN "TypeError"
    ELSE "items"

\* One statement of a bulk write, applied inside the open transaction.
ApplyStatement(op, work, stmt, now) ==
    CASE op = "upsert_items" -> UpsertOne(work, stmt, now)
      [] op = "update_item_history_bulk" -> HistoryUpdateOne(work, stmt, now)
      [] op = "recompute_derived_metrics" -> RecomputeWrite(work, stmt)
      [] op = "update_item_order_book_bulk" -> OrderBookUpdateOne(work, stmt)

RECURSIVE ApplyStatements(_, _, _, _)
ApplyStatements(op, work, stmts, now) ==
    IF stmts = <<>> THEN work
    ELSE ApplyStatements(op, ApplyStatement(op, work, Head(stmts), now),
                         Tail(stmts), now)

\* The ids of a table in the order a SELECT without ORDER BY walks the
\* INTEGER PRIMARY KEY.
RECURSIVE IdsAscending(_)
IdsAscending(S) ==
    IF S = {} THEN <<>>
    ELSE LET m == CHOOSE x \in S : \A y \in S : x <= y
         IN  <<m>> \o IdsAscending(S \ {m})

\* The `updates` list of recompute_derived_metrics: one single-row update per
\* row read.
RecomputeStatements(tbl) ==
    LET ids == IdsAscending(DOMAIN tbl)
    IN  [k \in DOMAIN ids |-> (ids[k] :> DerivedOfRow(tbl[ids[k]]))]

\* Mutation of CommittedInLoop: conn.commit() inside the loop.
CommittedInLoopEachStatement(committed, work) == work

\* The committed table while the statements of a bulk write run: the methods
\* commit once, after the loop or the executemany.
CommittedInLoop(committed, work) == committed

\* A bulk write begins: the connection is opened, `now` is read, the rows for
\* executemany are built (recompute_derived_metrics runs its SELECT).
TxBegin(op, arg) ==
    /\ ~tx.open
    /\ clock < MaxTx
    /\ clock' = clock + 1
    /\ tx' = [open |-> TRUE, op |-> op, arg |-> arg, todo |-> arg,
              base |-> items, work |-> items, now |-> clock]
    /\ seen' = NoRead
    /\ UNCHANGED <<items, prev, lastOp, batchVars, cycleVars, callVars>>

\* One cursor.execute of the loop, or one row of the executemany.
TxStatement ==
    /\ tx.open
    /\ tx.todo # <<>>
    /\ LET work == ApplyStatement(tx.op, tx.work, Head(tx.todo), tx.now)
       IN  /\ tx' = [tx EXCEPT !.work = work, !.todo = Tail(tx.todo)]
           /\ items' = CommittedInLoop(items, work)
    /\ seen' = NoRead
    /\ UNCHANGED <<prev, lastOp, clock, batchVars, cycleVars, callVars>>

\* conn.commit()
TxCommit ==
    /\ tx.open
    /\ tx.todo = <<>>
    /\ items' = tx.work
    /\ prev' = tx.base
    /\ lastOp' = [op |-> tx.op, arg |-> tx.arg, after |-> lastOp.op]
    /\ tx' = NoTx
    /\ seen' = NoRead
    /\ UNCHANGED <<clock, batchVars, cycleVars, callVars>>

\* A read method on a connection of its own: its SELECT fetches committed
\* rows, then every row goes through _row_to_item.
Read(method, item_id) ==
    /\ seen' = [read |-> TRUE, method |-> method, id |-> item_id,
                rows |-> SelectRows(method, item_id, items),
                result |-> ReadResult(SelectRows(method, item_id, items))]
    /\ UNCHANGED <<storeVars, batchVars, tx, cycleVars, callVars>>

TxInit ==
    /\ items = [i \in {} |-> Null]
    /\ prev = [i \in {} |-> Null]
    /\ lastOp = [op |-> "init", arg |-> <<>>, after |-> "init"]
    /\ clock = 0
    /\ bIds = <<>>
    /\ bMax = 0
    /\ bpc = "idle"
    /\ sem = 0
    /\ tpc = <<>>
    /\ tout = <<>>
    /\ tres = <<>>
    /\ bret = [i \in {} |-> <<>>]
    /\ tx = NoTx
    /\ seen = NoRead
    /\ pc = [p \in {1, 2} |-> "idle"]
    /\ cyc = [p \in {1, 2} |-> [started |-> FALSE]]
    /\ budget = [p \in {1, 2} |-> 0]
    /\ upstream = [i \in {} |-> <<>>]
    /\ books = [i \in {} |-> <<>>]
    /\ call = [fn |-> "none"]

TxNext ==
    \/ \E batch \in PriceBatches \ {<<>>} : TxBegin("upsert_items", batch)
    \/ \E updates \in HistoryBatches \ {<<>>} :
            TxBegin("update_item_history_bulk", updates)
    \/ TxBegin("recompute_derived_metrics", RecomputeStatements(items))
    \/ \E updates \in OrderBookBatches \ {<<>>} :
            TxBegin("update_item_order_book_bulk", updates)
    \/ TxStatement
    \/ TxCommit
    \/ \E item_id \in Ids : Read("get_item", item_id)
    \/ Read("get_all_items", 0)
    \/ Read("get_items_with_velocity", 0)

\* Bulk writes one statement at a time, one writer at a time, beside readers.
SpecTx == TxInit /\ [][TxNext]_vars

-----------------------------------------------------------------------------
(* Store-level specification: any sequence of Database calls on one store *)

EmptyTable == [i \in {} |-> Null]

NoOp == [op |-> "init", arg |-> <<>>, after |-> "init"]

StoreInit ==
    /\ items = EmptyTable
    /\ prev = EmptyTable
    /\ lastOp = NoOp
    /\ clock = 0
    /\ bIds = <<>>
    /\ bMax = 0
    /\ bpc = "idle"
    /\ sem = 0
    /\ tpc = <<>>
    /\ tout = <<>>
    /\ tres = <<>>
    /\ bret = EmptyDict
    /\ tx = NoTx
    /\ seen = NoRead
    /\ pc = [p \in {1, 2} |-> "idle"]
    /\ cyc = [p \in {1, 2} |-> [started |-> FALSE]]
    /\ budget = [p \in {1, 2} |-> 0]
    /\ upstream = [i \in {} |-> <<>>]
    /\ books = [i \in {} |-> <<>>]
    /\ call = [fn |-> "none"]

\* Every call of the store advances the wall clock.
Called(op, arg) ==
    /\ clock < MaxOps
    /\ clock' = clock + 1
    /\ prev' = items
    /\ lastOp' = [op |-> op, arg |-> arg, after |-> lastOp.op]
    /\ UNCHANGED <<batchVars, txVars, cycleVars, callVars>>

Upsert(batch) ==
    /\ Called("upsert_items", batch)
    /\ items' = upsert_items(items, batch, clock)

HistoryBulk(updates) ==
    /\ Called("update_item_history_bulk", updates)
    /\ items' = update_item_history_bulk(items, updates, clock)

Recompute ==
    /\ Called("recompute_derived_metrics", <<>>)
    /\ items' = recompute_derived_metrics(items)

OrderBookBulk(updates) ==
    /\ Called("update_item_order_book_bulk", updates)
    /\ items' = update_item_order_book_bulk(items, updates)

VendorValues(vendor_values) ==
    /\ Called("update_vendor_values", vendor_values)
    /\ items' = update_vendor_values(items, vendor_values)

StoreNext ==
    \/ \E batch \in PriceBatches : Upsert(batch)
    \/ \E updates \in HistoryBatches : HistoryBulk(updates)
    \/ Recompute
    \/ \E updates \in OrderBookBatches : OrderBookBulk(updates)
    \/ \E vendor_values \in VendorDicts : VendorValues(vendor_values)

Init == StoreInit

Next == StoreNext

Spec == Init /\ [][Next]_vars

\* One call of fetch_history_batch.
SpecBatch == BatchInit /\ [][BatchNext]_vars

-----------------------------------------------------------------------------
(* The update cycle, gw2_trader.py, and the reads it makes *)

\* The processes that run update cycles on the same store.
Procs == {1, 2}

\* SELECT * FROM items WHERE vendor_value IS NULL
MissingVendorRows(tbl) == {i \in DOMAIN tbl : tbl[i].vendor_value = Null}

\* Database.get_items_missing_vendor_value(): the ids of the items returned,
\* or the TypeError of _row_to_item when there is a row to convert.
get_items_missing_vendor_value(tbl) ==
    [raised |-> MissingVendorRows(tbl) # {} /\ RowToItemRaises,
     ids |-> MissingVendorRows(tbl)]

\* The WHERE clause of get_top_profit_candidates.
CandidateRows(tbl) ==
    {i \in DOMAIN tbl :
        /\ tbl[i].buy_price # Null
        /\ tbl[i].sell_price # Null
        /\ tbl[i].buy_price[1] > 0
        /\ tbl[i].sell_price[1] > 0
        /\ tbl[i].sell_price[1] > tbl[i].buy_price[1]}

\* COALESCE(flip_score, 0)
CoalesceScore(row) == IF row.flip_score = Null THEN Zero ELSE row.flip_score

\* ORDER BY COALESCE(flip_score, 0) DESC, (sell_price - buy_price) DESC:
\* row r1 sorts strictly before row r2.
SortsBefore(r1, r2) ==
    \/ RatLess(CoalesceScore(r2), CoalesceScore(r1))
    \/ /\ CoalesceScore(r1) = CoalesceScore(r2)
       /\ r1.sell_price[1] - r1.buy_price[1] > r2.sell_price[1] - r2.buy_price[1]

RECURSIVE OrderedCandidates(_, _)
OrderedCandidates(tbl, S) ==
    IF S = {} THEN <<>>
    ELSE LET m == CHOOSE x \in S : \A y \in S : ~SortsBefore(tbl[y], tbl[x])
         IN  <<m>> \o OrderedCandidates(tbl, S \ {m})

\* LIMIT ?
Take(rows, limit) == SubSeq(rows, 1, Min(limit, Len(rows)))

\* Database.get_top_profit_candidates(limit): the ids of the items returned,
\* in order, or the TypeError of _row_to_item when there is a row to convert.
get_top_profit_candidates(tbl, limit) ==
    LET ids == Take(OrderedCandidates(tbl, CandidateRows(tbl)), limit)
    IN  [raised |-> ids # <<>> /\ RowToItemRaises, ids |-> ids]

\* DataWars2Client.fetch_history_batch(item_ids, ...) from call to return,
\* given what fetch_history does for each id.
fetch_history_batch(item_ids, answers) ==
    IF item_ids = <<>> THEN EmptyDict
    ELSE DictOf([k \in DOMAIN item_ids |->
                    FetchWithSemaphore(item_ids[k], answers[item_ids[k]])])

\* The tuple the cycle appends to history_updates for one item with a
\* non-empty history.
HistoryUpdateOf(item_id, history) ==
    LET quantities == calc_quantity_sold(history)
        ratios == calc_competition_ratio(history)
        floors == get_yesterday_floor_prices(history)
    IN  HistoryUpdateRow(item_id, quantities[1], quantities[2], quantities[3],
                         quantities[4], quantities[5], quantities[6],
                         ratios[1], ratios[2], calc_price_pressure(history),
                         floors[1], floors[2])

\* The loop over history_data.items(): `if not history: continue`, else one
\* update per item.  The keys are distinct, so the rows written do not
\* depend on the order of the loop.
RECURSIVE HistoryUpdates(_, _)
HistoryUpdates(history_data, ids) ==
    IF ids = <<>> THEN <<>>
    ELSE (IF history_data[Head(ids)] = <<>> THEN <<>>
          ELSE <<HistoryUpdateOf(Head(ids), history_data[Head(ids)])>>)
         \o HistoryUpdates(history_data, Tail(ids))

\* floor_price_map: items with a history and `buy_floor and buy_floor > 0`.
FloorPriceMap(history_data) ==
    LET floors(i) == get_yesterday_floor_prices(history_data[i])
    IN  [i \in {j \in DOMAIN history_data :
                    /\ history_data[j] # <<>>
                    /\ floors(j)[1] # Null
                    /\ floors(j)[1][1] # 0
                    /\ floors(j)[1][1] > 0} |-> floors(i)]

\* GW2Client.fetch_order_books_batch(item_ids, ...): the books the listings
\* service returns for the ids asked; a failed chunk returns none.
fetch_order_books_batch(item_ids, answers) ==
    IF item_ids = {} THEN EmptyDict
    ELSE [i \in item_ids \cap DOMAIN answers |-> answers[i]]

\* The loop over order_books.items(): one (item_id, buy_gold, buy_tiers) per
\* book fetched.
RECURSIVE OrderBookUpdates(_, _, _)
OrderBookUpdates(order_books, floor_price_map, ids) ==
    IF ids = <<>> THEN <<>>
    ELSE LET item_id == Head(ids)
             metrics == calc_order_book_competition(
                            order_books[item_id],
                            floor_price_map[item_id][1],
                            floor_price_map[item_id][2])
         IN  <<OrderBookUpdateRow(item_id, metrics[1], metrics[2])>>
                \o OrderBookUpdates(order_books, floor_price_map, Tail(ids))

\* gw2.fetch_items_batch(ids) turned into vendor_values: the ids the items
\* service answered for, each with data.get("vendor_value", 0).
VendorAnswers(ids) ==
    {[i \in DOMAIN d \cap ids |-> d[i]] : d \in VendorDicts \cup {EmptyDict}}

\* A listing with buy and sell prices equal: never a profit candidate.
IPFlat(id) == ItemPrice(id, "Item", Some(100), Some(100), Some(5), Some(7), Null)

\* What fetch_all_items can return: the price snapshot never carries a vendor
\* value.
CyclePriceBatches ==
    { <<>>,
      <<IPBase(1)>>,
      <<IPMoved(1)>>,
      <<IPFlat(1)>>,
      <<IPMoved(1), IPBase(2)>> }

\* The arguments of _run_update_cycle that choose its path.
CycleConfigs ==
    { [deep_refresh |-> FALSE, full |-> FALSE, fetch_order_books |-> FALSE],
      [deep_refresh |-> FALSE, full |-> FALSE, fetch_order_books |-> TRUE],
      [deep_refresh |-> TRUE, full |-> FALSE, fetch_order_books |-> FALSE],
      [deep_refresh |-> TRUE, full |-> FALSE, fetch_order_books |-> TRUE],
      [deep_refresh |-> TRUE, full |-> TRUE, fetch_order_books |-> TRUE] }

\* What the history service answers for each id while the cycles run.
UpstreamAnswers ==
    { [i \in Ids |-> [kind |-> "ok", entries |-> <<EntryToday, EntryYesterday>>]],
      (1 :> [kind |-> "ok", entries |-> <<>>]
         @@ 2 :> [kind |-> "ok", entries |-> <<EntryToday, EntryYesterday>>]),
      (1 :> [kind |-> "ok", entries |-> <<EntryToday>>]
         @@ 2 :> [kind |-> Raised, entries |-> <<>>]) }

\* An OrderBook of the listings service.
Book(item_id) ==
    [item_id |-> item_id,
     buys |-> << [unit_price |-> 100, quantity |-> 50],
                 [unit_price |-> 98, quantity |-> 10] >>,
     sells |-> << [unit_price |-> 201, quantity |-> 3] >>]

BookAnswers == { EmptyDict, [i \in Ids |-> Book(i)] }

\* Stores the cycles start on: an empty one, and stores written through the
\* Database methods whose items already have a vendor value.
StoreTraded ==
    update_item_order_book_bulk(
        recompute_derived_metrics(
            update_item_history_bulk(
                upsert_items(EmptyTable, <<IPVendor(1)>>, 0),
                <<HURTest(1)>>, 0)),
        <<OrderBookUpdateRow(1, RatInt(42), 2)>>)

StoreFlat ==
    recompute_derived_metrics(
        update_item_history_bulk(
            update_vendor_values(upsert_items(EmptyTable, <<IPFlat(1)>>, 0),
                                 (1 :> 50)),
            <<HURAlt(1)>>, 0))

CycleStores == { EmptyTable, StoreTraded, StoreFlat }

\* The locals of a cycle that has not started.
NoCycle == [started |-> FALSE]

Ended == {"done", "type_error", "io_error"}

\* A cheap cycle that returns after the vendor value refresh.
AfterVendorReturns(p) == IF cyc[p].deep_refresh THEN "candidates" ELSE "done"

\* The statement after the vendor value refresh.
AfterVendor(p) == IF cyc[p].deep_refresh THEN "candidates" ELSE "recompute_read"

\* items = await dw2.fetch_all_items() returned `batch`.
CycleBegin(p, cfg, batch) ==
    /\ pc[p] \in {"idle"} \cup Ended
    /\ budget[p] > 0
    /\ budget' = [budget EXCEPT ![p] = @ - 1]
    /\ pc' = [pc EXCEPT ![p] = "upsert"]
    /\ cyc' = [cyc EXCEPT ![p] =
                [started |-> TRUE,
                 deep_refresh |-> cfg.deep_refresh,
                 full |-> cfg.full,
                 fetch_order_books |-> cfg.fetch_order_books,
                 items |-> batch,
                 stored |-> items,
                 item_ids |-> <<>>,
                 history_data |-> EmptyDict,
                 floor_price_map |-> EmptyDict,
                 updates |-> EmptyDict]]
    /\ UNCHANGED <<storeVars, batchVars, txVars, upstream, books, callVars>>

\* await dw2.fetch_all_items() raised (the retries of _request are used up):
\* the cycle ends before it touches the store.
CyclePricesFail(p, cfg) ==
    /\ pc[p] \in {"idle"} \cup Ended
    /\ budget[p] > 0
    /\ budget' = [budget EXCEPT ![p] = @ - 1]
    /\ pc' = [pc EXCEPT ![p] = "io_error"]
    /\ cyc' = [cyc EXCEPT ![p] =
                [started |-> TRUE,
                 deep_refresh |-> cfg.deep_refresh,
                 full |-> cfg.full,
                 fetch_order_books |-> cfg.fetch_order_books,
                 items |-> <<>>,
                 stored |-> items,
                 item_ids |-> <<>>,
                 history_data |-> EmptyDict,
                 floor_price_map |-> EmptyDict,
                 updates |-> EmptyDict]]
    /\ UNCHANGED <<storeVars, batchVars, txVars, upstream, books, callVars>>

\* db.upsert_items(items)
CycleUpsert(p) ==
    /\ pc[p] = "upsert"
    /\ items' = upsert_items(items, cyc[p].items, clock)
    /\ clock' = IF cyc[p].items = <<>> THEN clock ELSE clock + 1
    /\ pc' = [pc EXCEPT ![p] = "vendor"]
    /\ UNCHANGED <<prev, lastOp, batchVars, txVars, cyc, budget, upstream, books, callVars>>

\* missing_items = db.get_items_missing_vendor_value() and the refresh of the
\* vendor values when there are any.
CycleVendor(p) ==
    /\ pc[p] = "vendor"
    /\ LET missing_items == get_items_missing_vendor_value(items)
       IN  IF missing_items.raised
           THEN /\ pc' = [pc EXCEPT ![p] = "type_error"]
                /\ UNCHANGED items
           ELSE /\ pc' = [pc EXCEPT ![p] = AfterVendor(p)]
                /\ IF missing_items.ids # {}
                   THEN \E vendor_values \in VendorAnswers(missing_items.ids) :
                            items' = IF DOMAIN vendor_values # {}
                                     THEN update_vendor_values(items, vendor_values)
                                     ELSE items
                   ELSE UNCHANGED items
    /\ UNCHANGED <<prev, lastOp, clock, batchVars, txVars, cyc, budget, upstream, books, callVars>>

\* candidates = db.get_top_profit_candidates(limit=...)
CycleCandidates(p) ==
    /\ pc[p] = "candidates"
    /\ LET candidates ==
            get_top_profit_candidates(items, IF cyc[p].full THEN 999999 ELSE 500)
       IN  IF candidates.raised
           THEN /\ pc' = [pc EXCEPT ![p] = "type_error"]
                /\ UNCHANGED cyc
           ELSE /\ pc' = [pc EXCEPT ![p] = "history"]
                /\ cyc' = [cyc EXCEPT ![p].item_ids = candidates.ids]
    /\ UNCHANGED <<storeVars, batchVars, txVars, budget, upstream, books, callVars>>

\* history_data = await dw2.fetch_history_batch(item_ids, ...), the loop that
\* builds history_updates and floor_price_map, and
\* db.update_item_history_bulk(history_updates).
CycleHistory(p) ==
    /\ pc[p] = "history"
    /\ LET history_data == fetch_history_batch(cyc[p].item_ids, upstream)
           history_updates ==
                HistoryUpdates(history_data, IdsAscending(DOMAIN history_data))
       IN  /\ cyc' = [cyc EXCEPT ![p].history_data = history_data,
                                 ![p].floor_price_map = FloorPriceMap(history_data)]
           /\ items' = update_item_history_bulk(items, history_updates, clock)
           /\ clock' = IF history_updates = <<>> THEN clock ELSE clock + 1
    /\ pc' = [pc EXCEPT ![p] = "recompute_read"]
    /\ UNCHANGED <<prev, lastOp, batchVars, txVars, budget, upstream, books, callVars>>

\* db.recompute_derived_metrics(), first half: the SELECT and the loop that
\* computes `updates`.  No transaction is open when the SELECT has been
\* fetched.
CycleRecomputeRead(p) ==
    /\ pc[p] = "recompute_read"
    /\ cyc' = [cyc EXCEPT ![p].updates = RecomputeRead(items)]
    /\ pc' = [pc EXCEPT ![p] = "recompute_write"]
    /\ UNCHANGED <<storeVars, batchVars, txVars, budget, upstream, books, callVars>>

\* db.recompute_derived_metrics(), second half: executemany and commit.
CycleRecomputeWrite(p) ==
    /\ pc[p] = "recompute_write"
    /\ items' = RecomputeWrite(items, cyc[p].updates)
    /\ pc' = [pc EXCEPT ![p] = IF cyc[p].deep_refresh THEN "order_books"
                                ELSE "done"]
    /\ UNCHANGED <<prev, lastOp, clock, batchVars, txVars, cyc, budget, upstream, books, callVars>>

\* The order-book stage: fetched and written when fetch_order_books is set,
\* skipped otherwise.
CycleOrderBooks(p) ==
    /\ pc[p] = "order_books"
    /\ IF cyc[p].fetch_order_books
       THEN LET order_books ==
                    fetch_order_books_batch(DOMAIN cyc[p].floor_price_map, books)
                order_book_updates ==
                    OrderBookUpdates(order_books, cyc[p].floor_price_map,
                                     IdsAscending(DOMAIN order_books))
            IN  items' = update_item_order_book_bulk(items, order_book_updates)
       ELSE UNCHANGED items
    /\ pc' = [pc EXCEPT ![p] = "done"]
    /\ UNCHANGED <<prev, lastOp, clock, batchVars, txVars, cyc, budget, upstream, books, callVars>>

\* Cycles run one after the other by one process.
CycleInit ==
    /\ items \in CycleStores
    /\ prev = items
    /\ lastOp = NoOp
    /\ clock = 1
    /\ bIds = <<>>
    /\ bMax = 0
    /\ bpc = "idle"
    /\ sem = 0
    /\ tpc = <<>>
    /\ tout = <<>>
    /\ tres = <<>>
    /\ bret = EmptyDict
    /\ tx = NoTx
    /\ seen = NoRead
    /\ pc = [p \in Procs |-> "idle"]
    /\ cyc = [p \in Procs |-> NoCycle]
    /\ budget = [p \in Procs |-> IF p = 1 THEN MaxCycles ELSE 0]
    /\ upstream \in UpstreamAnswers
    /\ books \in BookAnswers
    /\ call = [fn |-> "none"]

\* One cycle by each of two processes on the same store.
ConcInit ==
    /\ items \in CycleStores
    /\ prev = items
    /\ lastOp = NoOp
    /\ clock = 1
    /\ bIds = <<>>
    /\ bMax = 0
    /\ bpc = "idle"
    /\ sem = 0
    /\ tpc = <<>>
    /\ tout = <<>>
    /\ tres = <<>>
    /\ bret = EmptyDict
    /\ tx = NoTx
    /\ seen = NoRead
    /\ pc = [p \in Procs |-> "idle"]
    /\ cyc = [p \in Procs |-> NoCycle]
    /\ budget = [p \in Procs |-> 1]
    /\ upstream \in UpstreamAnswers
    /\ books \in BookAnswers
    /\ call = [fn |-> "none"]

CycleNext ==
    \/ \E p \in Procs, cfg \in CycleConfigs, batch \in CyclePriceBatches :
            CycleBegin(p, cfg, batch)
    \/ \E p \in Procs, cfg \in CycleConfigs : CyclePricesFail(p, cfg)
    \/ \E p \in Procs : CycleUpsert(p)
    \/ \E p \in Procs : CycleVendor(p)
    \/ \E p \in Procs : CycleCandidates(p)
    \/ \E p \in Procs : CycleHistory(p)
    \/ \E p \in Procs : CycleRecomputeRead(p)
    \/ \E p \in Procs : CycleRecomputeWrite(p)
    \/ \E p \in Procs : CycleOrderBooks(p)

SpecCycle == CycleInit /\ [][CycleNext]_vars

SpecConc == ConcInit /\ [][CycleNext]_vars

-----------------------------------------------------------------------------
(* Ranking: calculate_flip_result, lib/calculator.py, and cmd_flips,
   gw2_trader.py *)

\* The velocity and sold columns calculate_flip_result reads for `days`.
VelocityOfDays(item, days) ==
    IF days = 1 THEN <<item.buy_velocity_1d, item.sell_velocity_1d>>
    ELSE IF days = 7 THEN <<item.buy_velocity_7d, item.sell_velocity_7d>>
    ELSE <<item.buy_velocity_30d, item.sell_velocity_30d>>

SoldOfDays(item, days) ==
    IF days = 1 THEN <<item.buy_sold_1d, item.sell_sold_1d>>
    ELSE IF days = 7 THEN <<item.buy_sold_7d, item.sell_sold_7d>>
    ELSE <<item.buy_sold_30d, item.sell_sold_30d>>

\* min(buy_vel, sell_vel) on floats
RatMin(a, b) == IF RatLess(b, a) THEN b ELSE a

\* Mutation of calculate_flip_result: no check of the velocities and of the
\* score, an item without velocity data is scored as zero.
calculate_flip_result_zero_scored(item, days) ==
    IF \/ item.buy_price = Null
       \/ item.sell_price = Null
       \/ item.buy_quantity = Null
       \/ item.sell_quantity = Null
    THEN Null
    ELSE IF item.buy_price[1] <= 0 \/ item.sell_price[1] <= 0 THEN Null
    ELSE LET percent_profit ==
                calc_percent_profit(item.buy_price[1], item.sell_price[1],
                                    item.vendor_value)
             buy_vel == OrZeroRat(VelocityOfDays(item, days)[1])
             sell_vel == OrZeroRat(VelocityOfDays(item, days)[2])
         IN  IF RatLeqZero(percent_profit) THEN Null
             ELSE <<[item |-> item,
                     percent_profit |-> percent_profit,
                     flip_velocity |-> RatMin(buy_vel, sell_vel),
                     flip_score |->
                        calc_flip_score(OrZero(SoldOfDays(item, days)[1]),
                                        OrZero(SoldOfDays(item, days)[2]),
                                        item.buy_price[1], percent_profit)]>>

\* calculate_flip_result(item, days): Null for None, else <<FlipResult>>.
calculate_flip_result(item, days) ==
    IF \/ item.buy_price = Null
       \/ item.sell_price = Null
       \/ item.buy_quantity = Null
       \/ item.sell_quantity = Null
    THEN Null
    ELSE IF item.buy_price[1] <= 0 \/ item.sell_price[1] <= 0 THEN Null
    ELSE IF item.buy_quantity[1] = 0 \/ item.sell_quantity[1] = 0 THEN Null
    ELSE IF item.vendor_value # Null /\ item.buy_price[1] <= item.vendor_value[1]
    THEN Null
    ELSE LET percent_profit ==
                calc_percent_profit(item.buy_price[1], item.sell_price[1],
                                    item.vendor_value)
             buy_vel == OrZeroRat(VelocityOfDays(item, days)[1])
             sell_vel == OrZeroRat(VelocityOfDays(item, days)[2])
             buy_sold == OrZero(SoldOfDays(item, days)[1])
             sell_sold == OrZero(SoldOfDays(item, days)[2])
             flip_score == calc_flip_score(buy_sold, sell_sold,
                                           item.buy_price[1], percent_profit)
         IN  IF RatLeqZero(percent_profit) THEN Null
             ELSE IF RatLeqZero(buy_vel) \/ RatLeqZero(sell_vel) THEN Null
             ELSE IF RatLeqZero(flip_score) THEN Null
             ELSE <<[item |-> item,
                     percent_profit |-> percent_profit,
                     flip_velocity |-> RatMin(buy_vel, sell_vel),
                     flip_score |-> flip_score]>>

\* The body of the loop of cmd_flips for one item: the FlipResult appended,
\* if any.
FlipAppended(item, args) ==
    IF /\ item.sell_price # Null
       /\ item.sell_price[1] # 0
       /\ item.sell_price[1] > args.max_price
    THEN <<>>
    ELSE IF OrZero(item.sell_sold_7d) < 7 * args.min_sold THEN <<>>
    ELSE IF OrZero(item.buy_sold_7d) < 7 * args.min_bought THEN <<>>
    ELSE LET result == calculate_flip_result(item, args.days)
         IN  IF /\ result # Null
                /\ RatPositive(result[1].flip_score)
                /\ ~RatLess(result[1].percent_profit, RatInt(args.min_profit))
                /\ \/ args.max_profit = Null
                   \/ ~RatLess(RatInt(args.max_profit[1]), result[1].percent_profit)
             THEN result
             ELSE <<>>

\* The loop of cmd_flips over the items read, in the order read.
RECURSIVE FlipResults(_, _, _)
FlipResults(rows, ids, args) ==
    IF ids = <<>> THEN <<>>
    ELSE FlipAppended(rows[Head(ids)] @@ [id |-> Head(ids)], args)
            \o FlipResults(rows, Tail(ids), args)

\* One step of results.sort(key=lambda r: r.flip_score, reverse=True): r is
\* placed after every result whose score is not smaller (the sort is stable).
RECURSIVE InsertByScore(_, _)
InsertByScore(sorted, r) ==
    IF sorted = <<>> THEN <<r>>
    ELSE IF RatLess(Head(sorted).flip_score, r.flip_score)
    THEN <<r>> \o sorted
    ELSE <<Head(sorted)>> \o InsertByScore(Tail(sorted), r)

RECURSIVE SortByScore(_)
SortByScore(results) ==
    IF results = <<>> THEN <<>>
    ELSE InsertByScore(SortByScore(SubSeq(results, 1, Len(results) - 1)),
                       results[Len(results)])

\* results[: limit]
SliceTo(results, limit) ==
    IF limit >= 0 THEN SubSeq(results, 1, Min(limit, Len(results)))
    ELSE SubSeq(results, 1, Max(0, Len(results) + limit))

\* The results cmd_flips prints for the items read.
RankFlips(rows, args) ==
    SliceTo(SortByScore(FlipResults(rows, IdsAscending(DOMAIN rows), args)),
            args.limit)

\* cmd_flips(args) on a store: db.get_items_with_velocity() raises the
\* TypeError of _row_to_item when it has a row to convert; else the items
\* read are ranked.
cmd_flips(tbl, args) ==
    LET rows == WithVelocityRows(tbl)
    IN  IF ReadResult(rows) = "TypeError"
        THEN [fn |-> "cmd_flips", args |-> args, raised |-> TRUE,
              results |-> <<>>]
        ELSE [fn |-> "cmd_flips", args |-> args, raised |-> FALSE,
              results |-> RankFlips(rows, args)]

\* A history update row of a heavily traded item.
HURBusy(id) ==
    HistoryUpdateRow(id, 200, 300, 1400, 2100, 6000, 9000, RatInt(2), RatInt(3),
                     Zero, Some(99), Some(205))

\* Three items with prices, history and recomputed metrics.
FlipStoreRanked ==
    recompute_derived_metrics(
        update_item_history_bulk(
            upsert_items(EmptyTable, <<IPBase(1), IPBase(2), IPMoved(3)>>, 0),
            <<HURTest(1), HURAlt(2), HURBusy(3)>>, 0))

\* Prices only: no history written, nothing recomputed.
FlipStorePrices == upsert_items(EmptyTable, <<IPBase(1), IPBare(2)>>, 0)

\* Prices only, then a recompute.
FlipStoreZeroed == recompute_derived_metrics(FlipStorePrices)

\* One item with history and recomputed metrics, one without.
FlipStoreMixed ==
    recompute_derived_metrics(
        update_item_history_bulk(FlipStorePrices, <<HURBusy(1)>>, 0))

\* Recomputed metrics, then the vendor value arrives at the buy price.
FlipStoreVendor == update_vendor_values(FlipStoreRanked, (1 :> 100 @@ 3 :> 50))

FlipStores ==
    { EmptyTable, FlipStoreRanked, FlipStorePrices, FlipStoreZeroed,
      FlipStoreMixed, FlipStoreVendor }

\* The arguments of the flips command.
FlipArgs ==
    [days : {1, 7, 30},
     limit : {0, 1, 2},
     min_profit : {0, 70},
     max_profit : {Null, Some(70)},
     max_price : {150, 3000000},
     min_sold : {0, 24},
     min_bought : {0, 24}]

NoCall == [fn |-> "none"]

\* cmd_flips(args)
Flips(args) ==
    /\ call' = cmd_flips(items, args)
    /\ UNCHANGED <<storeVars, batchVars, txVars, cycleVars>>

FlipsInit ==
    /\ items \in FlipStores
    /\ prev = items
    /\ lastOp = NoOp
    /\ clock = 1
    /\ bIds = <<>>
    /\ bMax = 0
    /\ bpc = "idle"
    /\ sem = 0
    /\ tpc = <<>>
    /\ tout = <<>>
    /\ tres = <<>>
    /\ bret = EmptyDict
    /\ tx = NoTx
    /\ seen = NoRead
    /\ pc = [p \in Procs |-> "idle"]
    /\ cyc = [p \in Procs |-> NoCycle]
    /\ budget = [p \in Procs |-> 0]
    /\ upstream = EmptyDict
    /\ books = EmptyDict
    /\ call = NoCall

FlipsNext == \E args \in FlipArgs : Flips(args)

\* The flips command run on a store.
SpecFlips == FlipsInit /\ [][FlipsNext]_vars

-----------------------------------------------------------------------------
(* Calls of the numeric core, lib/calculator.py, with the values Python
   passes: an Optional argument is Null or <<v>> *)

\* A call returned v.
Returned(v) == [raised |-> FALSE, value |-> v]

\* A call raised TypeError: an operator was applied to None.
TypeError == [raised |-> TRUE, value |-> "TypeError"]

\* calc_percent_profit(buy_price, sell_price, vendor_value) as Python runs
\* it: `buy_price <= 0 or sell_price <= 0` compares its operands in turn, and
\* comparing None with 0 raises TypeError.
percent_profit_call(buy_price, sell_price, vendor_value) ==
    IF buy_price = Null THEN TypeError
    ELSE IF buy_price[1] > 0 /\ sell_price = Null THEN TypeError
    ELSE Returned(calc_percent_profit(buy_price[1], OrZero(sell_price),
                                      vendor_value))

BuyPrices == {Null} \cup {Some(b) : b \in {-1, 0, 1, 10, 30}}

SellPrices == {Null} \cup {Some(s) : s \in -1..MaxPrice}

VendorFloors == {Null, Some(0), Some(5), Some(10), Some(25), Some(100)}

CallPercentProfit ==
    /\ call = NoCall
    /\ \E buy_price \in BuyPrices, sell_price \in SellPrices,
          vendor_value \in VendorFloors :
            call' = [fn |-> "calc_percent_profit",
                     args |-> <<buy_price, sell_price, vendor_value>>,
                     out |-> percent_profit_call(buy_price, sell_price,
                                                 vendor_value)]
    /\ UNCHANGED <<storeVars, batchVars, txVars, cycleVars>>

\* A day without trades on either side.
EntryIdle == HistoryEntry(0, 0, 7, 9, 0, 0, Null, Null, Null, Null)

\* A day traded on both sides, and a day traded on the buy side only.
EntryTraded == WithValues(EntryToday, 500, 1900)

EntryBuyOnly == WithValues(EntryYesterday, 396, 0)

\* A day with sell-side trades only and 100 buy orders listed.
EntryUnbought ==
    WithValues(HistoryEntry(0, 10, 100, 10, 0, 2, Null, RatInt(190), Null, Some(201)),
               0, 1900)

\* A day whose average sell price is below its average buy price.
EntryInverted ==
    HistoryEntry(5, 10, 20, 10, 1, 2, RatInt(200), RatInt(150), Some(190), Some(160))

\* A day whose average buy price is reported as 0.
EntryFree ==
    HistoryEntry(5, 10, 20, 10, 1, 2, Zero, RatInt(190), Some(0), Some(201))

\* A day with average prices and listings withdrawn, but nothing sold.
EntryQuiet ==
    HistoryEntry(0, 0, 20, 10, 1, 2, RatInt(100), RatInt(120), Some(98), Some(125))

\* The entries of the histories enumerated in full.
DayEntries == {EntryTraded, EntryBuyOnly}

\* The histories of n entries.
RECURSIVE HistoriesOfLength(_)
HistoriesOfLength(n) ==
    IF n = 0 THEN {<<>>}
    ELSE {<<e>> \o h : e \in DayEntries, h \in HistoriesOfLength(n - 1)}

\* A history of 31 traded days but for day k, without trades.
LongHistory(k) == [d \in 1..31 |-> IF d = k THEN EntryIdle ELSE EntryTraded]

\* Histories newest first, as fetch_history returns them.
CalcHistories ==
    UNION {HistoriesOfLength(n) : n \in 0..MaxDays}
        \cup {LongHistory(0), LongHistory(1), LongHistory(15)}
        \cup {<<EntryIdle>>, <<EntryIdle, EntryTraded>>,
              <<EntryUnbought>>, <<EntryUnbought, EntryTraded>>,
              <<EntryTraded, EntryIdle, EntryBuyOnly>>,
              <<EntryTraded, EntryInverted>>, <<EntryInverted, EntryTraded>>,
              <<EntryTraded, EntryFree>>, <<EntryFree, EntryTraded>>,
              <<EntryQuiet, EntryTraded>>, <<EntryQuiet, EntryBuyOnly, EntryFree>>,
              [d \in 1..8 |-> IF d = 3 THEN EntryIdle ELSE EntryTraded]}

\* The integer fields of a HistoryEntry; item.get(..., 0) gives None for a
\* JSON null.
EntryIntFields ==
    {"buy_sold", "sell_sold", "buy_value", "sell_value", "buy_listed",
     "sell_listed", "buy_delisted", "sell_delisted"}

\* The HistoryEntry fetch_history builds when the fields `nulls` are null in
\* the response: each integer field is Null or <<v>>.
PyEntry(entry, nulls) ==
    [f \in DOMAIN entry |->
        IF f \in EntryIntFields
        THEN (IF f \in nulls THEN Null ELSE Some(entry[f]))
        ELSE entry[f]]

PyHistory(history, nulls) ==
    [k \in DOMAIN history |->
        PyEntry(history[k], IF k = 1 THEN nulls ELSE {})]

\* The entry with every None integer read as 0, for the code that treats
\* None and 0 alike (`if h.buy_sold`).
PlainEntry(entry) ==
    [f \in DOMAIN entry |->
        IF f \in EntryIntFields THEN OrZero(entry[f]) ELSE entry[f]]

PlainHistory(history) == [k \in DOMAIN history |-> PlainEntry(history[k])]

\* calc_velocity(history): the six velocities over the non-zero values.
calc_velocity(history) ==
    LET buy_values == NonZero([k \in DOMAIN history |-> history[k].buy_value])
        sell_values == NonZero([k \in DOMAIN history |-> history[k].sell_value])
        avg(values, n) ==
            IF values # <<>>
            THEN Rat(SumFirst(values, n), Min(n, Len(values)) * 10000)
            ELSE Zero
    IN  IF history = <<>> THEN <<Zero, Zero, Zero, Zero, Zero, Zero>>
        ELSE << IF buy_values # <<>> THEN Rat(buy_values[1], 10000) ELSE Zero,
                IF sell_values # <<>> THEN Rat(sell_values[1], 10000) ELSE Zero,
                avg(buy_values, 7), avg(sell_values, 7),
                avg(buy_values, 30), avg(sell_values, 30) >>

\* calc_quantity_sold(history) as Python runs it: `if h.buy_sold` drops None
\* as it drops 0, nothing raises.
quantity_sold_call(history) == Returned(calc_quantity_sold(PlainHistory(history)))

\* calc_velocity(history) as Python runs it: `if h.buy_value` drops None.
velocity_call(history) == Returned(calc_velocity(PlainHistory(history)))

\* calc_competition_ratio(history) as Python runs it: `None == 0` is False,
\* so a None sold count is divided by, and a None listed count is divided
\* when the sold count is not 0; both raise TypeError.
competition_ratio_call(history) ==
    IF history = <<>> THEN Returned(calc_competition_ratio(<<>>))
    ELSE LET entry == history[1]
             raises(sold, listed) ==
                sold = Null \/ (sold # Some(0) /\ listed = Null)
         IN  IF \/ raises(entry.buy_sold, entry.buy_listed)
                \/ raises(entry.sell_sold, entry.sell_listed)
             THEN TypeError
             ELSE Returned(calc_competition_ratio(PlainHistory(history)))

\* calc_price_pressure(history) as Python runs it: the averages are read
\* through `or 0`; once the spreads are taken, today.buy_sold +
\* today.sell_sold and today.buy_delisted + today.sell_delisted raise
\* TypeError on a None operand.
price_pressure_call(history) ==
    IF Len(history) < 2 THEN Returned(Zero)
    ELSE LET today == history[1]
             yesterday == history[2]
             sums_reached ==
                /\ RatPositive(OrZeroRat(today.buy_price_avg))
                /\ RatPositive(OrZeroRat(today.sell_price_avg))
                /\ RatPositive(OrZeroRat(yesterday.buy_price_avg))
                /\ RatPositive(OrZeroRat(yesterday.sell_price_avg))
                /\ RatPositive(RatSub(OrZeroRat(yesterday.sell_price_avg),
                                      OrZeroRat(yesterday.buy_price_avg)))
         IN  IF /\ sums_reached
                /\ Null \in {today.buy_sold, today.sell_sold,
                              today.buy_delisted, today.sell_delisted}
             THEN TypeError
             ELSE Returned(calc_price_pressure(PlainHistory(history)))

\* get_yesterday_floor_prices(history) as Python runs it: two attribute
\* reads, nothing raises.
yesterday_floor_prices_call(history) ==
    Returned(get_yesterday_floor_prices(PlainHistory(history)))

\* The histories passed to the calculators: without nulls, and short ones
\* with one null integer field in the newest entry.
CalcInputs ==
    {PyHistory(h, {}) : h \in CalcHistories}
        \cup {PyHistory(h, {f}) :
                h \in {<<EntryTraded>>, <<EntryTraded, EntryBuyOnly>>,
                       <<EntryIdle, EntryTraded>>},
                f \in EntryIntFields}

CallQuantitySold ==
    /\ call = NoCall
    /\ \E history \in CalcInputs :
            call' = [fn |-> "calc_quantity_sold", args |-> <<history>>,
                     out |-> quantity_sold_call(history)]
    /\ UNCHANGED <<storeVars, batchVars, txVars, cycleVars>>

CallVelocity ==
    /\ call = NoCall
    /\ \E history \in CalcInputs :
            call' = [fn |-> "calc_velocity", args |-> <<history>>,
                     out |-> velocity_call(history)]
    /\ UNCHANGED <<storeVars, batchVars, txVars, cycleVars>>

CallCompetitionRatio ==
    /\ call = NoCall
    /\ \E history \in CalcInputs :
            call' = [fn |-> "calc_competition_ratio", args |-> <<history>>,
                     out |-> competition_ratio_call(history)]
    /\ UNCHANGED <<storeVars, batchVars, txVars, cycleVars>>

\* One listing of an order book.
Listing(unit_price, quantity) == [unit_price |-> unit_price, quantity |-> quantity]

BuyListings == {Listing(100, 10), Listing(105, 20), Listing(110, 30)}

SellListings == {Listing(0, 5), Listing(105, 20), Listing(110, 30)}

\* The sides of at most n listings taken from a set.
RECURSIVE SidesUpTo(_, _)
SidesUpTo(listings, n) ==
    IF n = 0 THEN {<<>>}
    ELSE SidesUpTo(listings, n - 1)
            \cup {<<o>> \o side : o \in listings,
                                  side \in SidesUpTo(listings, n - 1)}

\* The order books passed to the depth scorer.
CalcBooks ==
    {[item_id |-> 1, buys |-> buys, sells |-> sells] :
        buys \in SidesUpTo(BuyListings, MaxListings),
        sells \in SidesUpTo(SellListings, MaxListings)}

\* Yesterday's lowest buy price, or none.
PriceFloors == {Null, Some(100)}

\* Yesterday's highest sell price, or none.
PriceCeilings == {Null, Some(110)}

\* calc_order_book_competition as Python runs it: a None floor or ceiling
\* is tested before any comparison.
order_book_competition_call(order_book, buy_price_floor, sell_price_ceiling) ==
    Returned(calc_order_book_competition(order_book, buy_price_floor,
                                         sell_price_ceiling))

CallOrderBookCompetition ==
    /\ call = NoCall
    /\ \E order_book \in CalcBooks, buy_price_floor \in PriceFloors,
          sell_price_ceiling \in PriceCeilings :
            call' = [fn |-> "calc_order_book_competition",
                     args |-> <<order_book, buy_price_floor, sell_price_ceiling>>,
                     out |-> order_book_competition_call(
                                order_book, buy_price_floor, sell_price_ceiling)]
    /\ UNCHANGED <<storeVars, batchVars, txVars, cycleVars>>

\* calc_flip_score as Python runs it: the percent_profit test comes first;
\* then min() of a None quantity, or a quantity times a None price, raises
\* TypeError.
flip_score_call(buy_sold_qty, sell_sold_qty, buy_price, percent_profit) ==
    IF RatLeqZero(percent_profit) THEN Returned(Zero)
    ELSE IF buy_sold_qty = Null \/ sell_sold_qty = Null \/ buy_price = Null
         THEN TypeError
         ELSE Returned(calc_flip_score(buy_sold_qty[1], sell_sold_qty[1],
                                       buy_price[1], percent_profit))

\* Sold quantities passed to calc_flip_score.
SoldQuantities == {Null, Some(0), Some(10), Some(20), Some(50), Some(100)}

\* Buy prices passed to calc_flip_score.
ScorePrices == {Null, Some(0), Some(100), Some(1000)}

\* Margins passed to calc_flip_score: results of calc_percent_profit and the
\* values of the tests.
PercentProfits ==
    {RatInt(-10), RatInt(-5), Zero, RatInt(10), RatInt(20),
     calc_percent_profit(10, 39, Null), calc_percent_profit(10, 40, Null)}

CallFlipScore ==
    /\ call = NoCall
    /\ \E buy_sold_qty \in SoldQuantities, sell_sold_qty \in SoldQuantities,
          buy_price \in ScorePrices, percent_profit \in PercentProfits :
            call' = [fn |-> "calc_flip_score",
                     args |-> <<buy_sold_qty, sell_sold_qty, buy_price,
                                percent_profit>>,
                     out |-> flip_score_call(buy_sold_qty, sell_sold_qty,
                                             buy_price, percent_profit)]
    /\ UNCHANGED <<storeVars, batchVars, txVars, cycleVars>>

CallPricePressure ==
    /\ call = NoCall
    /\ \E history \in CalcInputs :
            call' = [fn |-> "calc_price_pressure", args |-> <<history>>,
                     out |-> price_pressure_call(history)]
    /\ UNCHANGED <<storeVars, batchVars, txVars, cycleVars>>

CallYesterdayFloorPrices ==
    /\ call = NoCall
    /\ \E history \in CalcInputs :
            call' = [fn |-> "get_yesterday_floor_prices", args |-> <<history>>,
                     out |-> yesterday_floor_prices_call(history)]
    /\ UNCHANGED <<storeVars, batchVars, txVars, cycleVars>>

CalcInit ==
    /\ items = EmptyTable
    /\ prev = EmptyTable
    /\ lastOp = NoOp
    /\ clock = 0
    /\ bIds = <<>>
    /\ bMax = 0
    /\ bpc = "idle"
    /\ sem = 0
    /\ tpc = <<>>
    /\ tout = <<>>
    /\ tres = <<>>
    /\ bret = EmptyDict
    /\ tx = NoTx
    /\ seen = NoRead
    /\ pc = [p \in Procs |-> "idle"]
    /\ cyc = [p \in Procs |-> NoCycle]
    /\ budget = [p \in Procs |-> 0]
    /\ upstream = EmptyDict
    /\ books = EmptyDict
    /\ call = NoCall

CalcNext ==
    \/ CallPercentProfit
    \/ CallQuantitySold
    \/ CallVelocity
    \/ CallCompetitionRatio
    \/ CallOrderBookCompetition
    \/ CallFlipScore
    \/ CallPricePressure
    \/ CallYesterdayFloorPrices

\* One call of a function of the numeric core on each run.
SpecCalc == CalcInit /\ [][CalcNext]_vars

-----------------------------------------------------------------------------
(* The retry loop of the two HTTP clients, lib/api.py *)

\* RETRIABLE_STATUS_CODES
RETRIABLE_STATUS_CODES == {429, 500, 502, 503, 504}

\* client.get raised httpx.RequestError (a transport error): no response.
RequestError == <<>>

\* A response with its status code.
Response(status_code) == <<status_code>>

\* What one client.get can do: a response, or a transport error.
Answers == {RequestError}
            \cup {Response(status_code) : status_code \in {200, 301, 404, 429, 501, 503}}

\* Whether response.raise_for_status() raises: never for 2xx, always for
\* 4xx and 5xx; for the other codes it depends on the httpx release.
RaiseForStatus(status_code) ==
    IF status_code \in 200..299 THEN {FALSE}
    ELSE IF status_code >= 400 THEN {TRUE}
    ELSE BOOLEAN

\* A backoff factor that grows by one with each attempt.
Pow2Linear(k) == k + 1

\* 2**attempt
RECURSIVE Pow2(_)
Pow2(k) == IF k = 0 THEN 1 ELSE 2 * Pow2(k - 1)

\* max_retries of a client.
RetryLimits == -1..MaxRetries

\* backoff_base of a client, in hundredths of a second (default 0.25).
BackoffBases == {0, 1, 25}

\* rate_limit_delay of a client, in hundredths of a second (default 0.0).
RateLimitDelays == {0, 5}

Pending == [kind |-> "pending"]

ReturnedResponse(response) == [kind |-> "returned", response |-> response]

\* httpx.HTTPStatusError carrying the response, or httpx.RequestError.
RaisedError(answer) == [kind |-> "raised", answer |-> answer]

\* The RuntimeError after the loop.
RaisedRuntimeError == [kind |-> "runtime_error"]

\* `for attempt in range(self.max_retries + 1)`: the body runs for attempt,
\* or the loop is over and the RuntimeError after it is raised.
LoopAt(frame, attempt) ==
    IF attempt < frame.max_retries + 1
    THEN [frame EXCEPT !.attempt = attempt, !.at = "get"]
    ELSE [frame EXCEPT !.at = "ended", !.out = RaisedRuntimeError]

\* _request(url) is called on a client.
RequestBegin ==
    /\ call = NoCall
    /\ \E max_retries \in RetryLimits, backoff_base \in BackoffBases,
          rate_limit_delay \in RateLimitDelays :
            call' = LoopAt([fn |-> "_request", max_retries |-> max_retries,
                            backoff_base |-> backoff_base,
                            rate_limit_delay |-> rate_limit_delay,
                            attempt |-> 0, at |-> "get", log |-> <<>>,
                            out |-> Pending], 0)
    /\ UNCHANGED <<storeVars, batchVars, txVars, cycleVars>>

\* The try block of one iteration and its except clauses: the request is
\* sent and answered; the response is returned (after the rate-limit sleep),
\* the error is raised, or the iteration goes on to its backoff.
RequestGet ==
    /\ call.fn = "_request"
    /\ call.at = "get"
    /\ \E answer \in Answers :
        LET sent == [call EXCEPT !.log = Append(@, [ev |-> "get", answer |-> answer])]
            exhausted == call.attempt >= call.max_retries
            retry_or_raise ==
                IF exhausted
                THEN [sent EXCEPT !.at = "ended", !.out = RaisedError(answer)]
                ELSE [sent EXCEPT !.at = "backoff"]
        IN  IF answer = RequestError \/ answer[1] \in RETRIABLE_STATUS_CODES
            THEN call' = retry_or_raise
            ELSE \E raises \in RaiseForStatus(answer[1]) :
                    call' =
                        IF raises
                        THEN [sent EXCEPT !.at = "ended", !.out = RaisedError(answer)]
                        ELSE [sent EXCEPT
                                !.at = "ended",
                                !.out = ReturnedResponse(answer),
                                !.log =
                                    IF call.rate_limit_delay > 0
                                    THEN Append(@, [ev |-> "sleep", why |-> "rate_limit",
                                                    seconds |-> call.rate_limit_delay])
                                    ELSE @]
    /\ UNCHANGED <<storeVars, batchVars, txVars, cycleVars>>

\* The end of an iteration that neither returned nor raised: the backoff
\* sleep, then the next attempt.
RequestBackoff ==
    /\ call.fn = "_request"
    /\ call.at = "backoff"
    /\ LET backoff_seconds == call.backoff_base * Pow2(call.attempt)
           slept == IF backoff_seconds > 0
                    THEN [call EXCEPT !.log = Append(@, [ev |-> "sleep", why |-> "backoff",
                                                         seconds |-> backoff_seconds])]
                    ELSE call
       IN  call' = LoopAt(slept, call.attempt + 1)
    /\ UNCHANGED <<storeVars, batchVars, txVars, cycleVars>>

RequestInit ==
    /\ items = EmptyTable
    /\ prev = EmptyTable
    /\ lastOp = NoOp
    /\ clock = 0
    /\ bIds = <<>>
    /\ bMax = 0
    /\ bpc = "idle"
    /\ sem = 0
    /\ tpc = <<>>
    /\ tout = <<>>
    /\ tres = <<>>
    /\ bret = EmptyDict
    /\ tx = NoTx
    /\ seen = NoRead
    /\ pc = [p \in Procs |-> "idle"]
    /\ cyc = [p \in Procs |-> NoCycle]
    /\ budget = [p \in Procs |-> 0]
    /\ upstream = EmptyDict
    /\ books = EmptyDict
    /\ call = NoCall

RequestNext ==
    \/ RequestBegin
    \/ RequestGet
    \/ RequestBackoff

\* One call of _request on a client, against any sequence of answers.
SpecRequest == RequestInit /\ [][RequestNext]_vars

-----------------------------------------------------------------------------
(* The watch loop and the one-shot update command, gw2_trader.py *)

\* --interval of the watch command, in seconds.
Intervals == {60}

\* --deep-refresh-seconds of the watch command.
DeepRefreshSeconds == {0, 120, 180}

\* Seconds a cycle, the ranking and the sleep take beyond the interval.
Drifts == {0, 60}

\* A store whose only item has equal prices, a vendor value and no history:
\* no read of a cycle or of the ranking returns a row of it.
StoreFlatNew ==
    update_vendor_values(upsert_items(EmptyTable, <<IPFlat(1)>>, 0), (1 :> 50))

\* Stores the commands start on.
WatchStores == { EmptyTable, StoreFlat, StoreFlatNew, StoreTraded }

\* The flips_args namespace the watch loop builds from its defaults.
WatchFlipArgs ==
    [days |-> 1, limit |-> 2, min_profit |-> 0, max_profit |-> Null,
     max_price |-> 3000000, min_sold |-> 0, min_bought |-> 0]

\* deep_refresh_due with a strict comparison.
deep_refresh_due_after(last_deep_refresh_at, now, deep_refresh_seconds) ==
    \/ last_deep_refresh_at = Null
    \/ now - last_deep_refresh_at[1] > deep_refresh_seconds

\* deep_refresh_due = last_deep_refresh_at is None
\*     or (now - last_deep_refresh_at) >= deep_refresh_seconds
deep_refresh_due(last_deep_refresh_at, now, deep_refresh_seconds) ==
    \/ last_deep_refresh_at = Null
    \/ now - last_deep_refresh_at[1] >= deep_refresh_seconds

\* The locals of _run_update_cycle once fetch_all_items has answered.
CycleLocals(deep_refresh, full, fetch_order_books, batch) ==
    [started |-> TRUE,
     deep_refresh |-> deep_refresh,
     full |-> full,
     fetch_order_books |-> fetch_order_books,
     items |-> batch,
     stored |-> items,
     item_ids |-> <<>>,
     history_data |-> EmptyDict,
     floor_price_map |-> EmptyDict,
     updates |-> EmptyDict]

\* fetch_all_items returned a batch, or raised.
PriceAnswers == {[raised |-> FALSE, batch |-> b] : b \in CyclePriceBatches}
                    \cup {[raised |-> TRUE, batch |-> <<>>]}

\* cmd_watch: _run_watch_loop is entered, last_deep_refresh_at = None.
WatchStart ==
    /\ call = NoCall
    /\ \E interval \in Intervals, deep_refresh_seconds \in DeepRefreshSeconds,
          fetch_order_books \in BOOLEAN :
            call' = [fn |-> "_run_watch_loop", interval |-> interval,
                     deep_refresh_seconds |-> deep_refresh_seconds,
                     fetch_order_books |-> fetch_order_books,
                     last_deep_refresh_at |-> Null, now |-> 0, time |-> 0,
                     due |-> FALSE, at |-> "top", cycles |-> <<>>]
    /\ UNCHANGED <<storeVars, batchVars, txVars, cycleVars>>

\* The top of the loop body: now = time.time(), deep_refresh_due, and the
\* call of _run_update_cycle up to the answer of fetch_all_items.
WatchCycleBegin ==
    /\ call.fn = "_run_watch_loop"
    /\ call.at = "top"
    /\ budget[1] > 0
    /\ budget' = [budget EXCEPT ![1] = @ - 1]
    /\ LET now == call.time
           due == deep_refresh_due(call.last_deep_refresh_at, now,
                                   call.deep_refresh_seconds)
       IN  /\ call' = [call EXCEPT !.now = now, !.due = due, !.at = "cycle",
                                   !.cycles = Append(@, [now |-> now,
                                                         deep_refresh |-> due])]
           /\ \E answer \in PriceAnswers :
                /\ pc' = [pc EXCEPT ![1] = IF answer.raised THEN "io_error"
                                           ELSE "upsert"]
                /\ cyc' = [cyc EXCEPT ![1] =
                            CycleLocals(due, FALSE, call.fetch_order_books,
                                        answer.batch)]
    /\ UNCHANGED <<storeVars, batchVars, txVars, upstream, books>>

\* _run_update_cycle is over: an exception leaves the loop; otherwise
\* last_deep_refresh_at is set when the cycle was deep and cmd_flips runs,
\* whose exception leaves the loop as well.
WatchCycleEnd ==
    /\ call.fn = "_run_watch_loop"
    /\ call.at = "cycle"
    /\ pc[1] \in Ended
    /\ call' =
        IF pc[1] # "done" THEN [call EXCEPT !.at = "raised"]
        ELSE [call EXCEPT
                !.last_deep_refresh_at = IF call.due THEN Some(call.now) ELSE @,
                !.at = IF cmd_flips(items, WatchFlipArgs).raised THEN "raised"
                       ELSE "sleep"]
    /\ UNCHANGED <<storeVars, batchVars, txVars, cycleVars>>

\* await asyncio.sleep(interval)
WatchSleep ==
    /\ call.fn = "_run_watch_loop"
    /\ call.at = "sleep"
    /\ \E drift \in Drifts :
            call' = [call EXCEPT !.time = @ + call.interval + drift,
                                 !.at = "top"]
    /\ UNCHANGED <<storeVars, batchVars, txVars, cycleVars>>

\* cmd_update: _run_update_cycle(deep_refresh=True, full=args.full, ...) up
\* to the answer of fetch_all_items.
UpdateStart ==
    /\ call = NoCall
    /\ budget[1] > 0
    /\ budget' = [budget EXCEPT ![1] = @ - 1]
    /\ \E full \in BOOLEAN, fetch_order_books \in BOOLEAN, answer \in PriceAnswers :
        /\ call' = [fn |-> "cmd_update", at |-> "cycle"]
        /\ pc' = [pc EXCEPT ![1] = IF answer.raised THEN "io_error" ELSE "upsert"]
        /\ cyc' = [cyc EXCEPT ![1] =
                    CycleLocals(TRUE, full, fetch_order_books, answer.batch)]
    /\ UNCHANGED <<storeVars, batchVars, txVars, upstream, books>>

\* cmd_update returns 0, or the exception of the cycle leaves it.
UpdateEnd ==
    /\ call.fn = "cmd_update"
    /\ call.at = "cycle"
    /\ pc[1] \in Ended
    /\ call' = [call EXCEPT !.at = IF pc[1] = "done" THEN "returned" ELSE "raised"]
    /\ UNCHANGED <<storeVars, batchVars, txVars, cycleVars>>

WatchInit ==
    /\ items \in WatchStores
    /\ prev = items
    /\ lastOp = NoOp
    /\ clock = 1
    /\ bIds = <<>>
    /\ bMax = 0
    /\ bpc = "idle"
    /\ sem = 0
    /\ tpc = <<>>
    /\ tout = <<>>
    /\ tres = <<>>
    /\ bret = EmptyDict
    /\ tx = NoTx
    /\ seen = NoRead
    /\ pc = [p \in Procs |-> "idle"]
    /\ cyc = [p \in Procs |-> NoCycle]
    /\ budget = [p \in Procs |-> IF p = 1 THEN MaxWatchCycles ELSE 0]
    /\ upstream \in UpstreamAnswers
    /\ books \in BookAnswers
    /\ call = NoCall

WatchNext ==
    \/ WatchStart
    \/ WatchCycleBegin
    \/ WatchCycleEnd
    \/ WatchSleep
    \/ UpdateStart
    \/ UpdateEnd
    \/ CycleUpsert(1)
    \/ CycleVendor(1)
    \/ CycleCandidates(1)
    \/ CycleHistory(1)
    \/ CycleRecomputeRead(1)
    \/ CycleRecomputeWrite(1)
    \/ CycleOrderBooks(1)

\* The watch command, or the update command, run on a store.
SpecWatch == WatchInit /\ [][WatchNext]_vars

-----------------------------------------------------------------------------
(* The two fan-outs side by side, lib/api.py *)

\* chunk_size = 200
chunk_size == 200

\* item_ids[i:i + chunk_size] for i in range(0, len(item_ids), chunk_size)
ItemChunks(item_ids) ==
    [c \in 1..((Len(item_ids) + chunk_size - 1) \div chunk_size) |->
        SubSeq(item_ids, (c - 1) * chunk_size + 1,
               Min(c * chunk_size, Len(item_ids)))]

\* The ids 1..n in order.
FirstIds(n) == [k \in 1..n |-> k]

\* Lists of ids asked of the listings service: none, less than a chunk, a
\* full chunk, one id more, and three and four chunks' worth.
OrderBookIdLists ==
    { FirstIds(0), FirstIds(150), FirstIds(chunk_size), FirstIds(chunk_size + 1),
      FirstIds(2 * chunk_size + 50), FirstIds(3 * chunk_size + 1) }

\* What one await of _fetch_order_books_chunk can do: return the books of the
\* chunk, return {} after an HTTPStatusError or a RequestError, or raise
\* another exception (a body that is not JSON).
ChunkOutcomes == {"books", "empty", Raised}

\* _fetch_order_books_chunk(chunk), given what the request did.
FetchChunk(k, chunk, outcome) ==
    [kind |-> IF outcome = Raised THEN Raised ELSE "ok",
     id |-> k,
     entries |-> IF outcome = "books"
                 THEN [i \in {chunk[j] : j \in DOMAIN chunk} |-> Book(i)]
                 ELSE EmptyDict]

\* results.update(chunk_results) over results_list in order.
MergeChunks(results) ==
    [i \in UNION {DOMAIN results[k].entries : k \in DOMAIN results} |->
        LET last == CHOOSE k \in DOMAIN results :
                        /\ i \in DOMAIN results[k].entries
                        /\ \A j \in DOMAIN results :
                                i \in DOMAIN results[j].entries => j <= k
        IN  results[last].entries[i]]

\* fetch_order_books_batch up to the gather: the early return for no ids,
\* else the chunks, the semaphore and one task per chunk.
ChunksStart ==
    /\ call.fn = "fetch_order_books_batch"
    /\ bpc = "called"
    /\ IF bIds = <<>>
       THEN /\ bpc' = "returned"
            /\ bret' = EmptyDict
            /\ UNCHANGED <<sem, tpc, tout, tres>>
       ELSE /\ bpc' = "gathering"
            /\ sem' = bMax
            /\ tpc' = [k \in DOMAIN ItemChunks(bIds) |-> "waiting"]
            /\ tout' = [k \in DOMAIN ItemChunks(bIds) |-> "none"]
            /\ tres' = [k \in DOMAIN ItemChunks(bIds) |->
                            [kind |-> "none", id |-> k, entries |-> EmptyDict]]
            /\ UNCHANGED bret
    /\ UNCHANGED <<bIds, bMax, storeVars, txVars, cycleVars, callVars>>

\* The await of _fetch_order_books_chunk ends; fetch_chunk leaves the
\* `async with`, releasing the semaphore, whether it returns or raises.
ChunkFinish(k) ==
    /\ call.fn = "fetch_order_books_batch"
    /\ bpc = "gathering"
    /\ tpc[k] = "fetching"
    /\ \E outcome \in ChunkOutcomes :
        /\ tout' = [tout EXCEPT ![k] = outcome]
        /\ tres' = [tres EXCEPT ![k] = FetchChunk(k, ItemChunks(bIds)[k], outcome)]
    /\ tpc' = [tpc EXCEPT ![k] = "done"]
    /\ sem' = sem + 1
    /\ UNCHANGED <<bIds, bMax, bpc, bret, storeVars, txVars, cycleVars, callVars>>

\* asyncio.gather(*tasks) and the merge of the chunk results.
ChunksGather ==
    /\ call.fn = "fetch_order_books_batch"
    /\ bpc = "gathering"
    /\ IF \E k \in DOMAIN tres : tres[k].kind = Raised
       THEN /\ bpc' = "raised"
            /\ UNCHANGED bret
       ELSE /\ \A k \in DOMAIN tpc : tpc[k] = "done"
            /\ bpc' = "returned"
            /\ bret' = MergeChunks(tres)
    /\ UNCHANGED <<bIds, bMax, sem, tpc, tout, tres, storeVars, txVars, cycleVars, callVars>>

\* A call of fetch_history_batch(item_ids, max_concurrent=history_workers) or
\* of fetch_order_books_batch(item_ids, max_concurrent=orderbook_workers)
\* about to run, as _run_update_cycle makes them.
FanOutInit ==
    /\ items = EmptyTable
    /\ prev = EmptyTable
    /\ lastOp = NoOp
    /\ clock = 0
    /\ call \in {[fn |-> "fetch_history_batch"], [fn |-> "fetch_order_books_batch"]}
    /\ bIds \in IdLists \cup OrderBookIdLists
    /\ call.fn = "fetch_history_batch" => bIds \in IdLists
    /\ call.fn = "fetch_order_books_batch" => bIds \in OrderBookIdLists
    /\ bMax \in 0..MaxConcurrent
    /\ bpc = "called"
    /\ sem = 0
    /\ tpc = <<>>
    /\ tout = <<>>
    /\ tres = <<>>
    /\ bret = EmptyDict
    /\ tx = NoTx
    /\ seen = NoRead
    /\ pc = [p \in Procs |-> "idle"]
    /\ cyc = [p \in Procs |-> NoCycle]
    /\ budget = [p \in Procs |-> 0]
    /\ upstream = EmptyDict
    /\ books = EmptyDict

FanOutNext ==
    \/ call.fn = "fetch_history_batch" /\ BatchStart
    \/ \E k \in DOMAIN tpc : TaskAcquire(k)
    \/ /\ call.fn = "fetch_history_batch"
       /\ \E k \in DOMAIN tpc : \E outcome \in FetchOutcomes : TaskFinish(k, outcome)
    \/ call.fn = "fetch_history_batch" /\ BatchGather
    \/ ChunksStart
    \/ \E k \in DOMAIN tpc : ChunkFinish(k)
    \/ ChunksGather

SpecFanOut == FanOutInit /\ [][FanOutNext]_vars

-----------------------------------------------------------------------------
(* Claims on the store-level specification *)

\* The ids an argument list of rows names.
IdsOf(rows) == {rows[k].id : k \in 1..Len(rows)}

SameOn(fields, id) == \A f \in fields : items[id][f] = prev[id][f]

\* C1: upsert_items of a price snapshot for an id that is already stored
\* leaves every derived field of that item as it was (sold quantities,
\* velocities, competition ratios, price_pressure, yesterday floor/ceiling,
\* competition_gold, competition_tiers, flip_score); it writes nothing but
\* name, prices, quantities, vendor_value and price_updated.
C1_UpsertKeepsDerived ==
    lastOp.op = "upsert_items" =>
        \A id \in DOMAIN prev :
            /\ id \in DOMAIN items
            /\ SameOn(DerivedFields, id)
            /\ SameOn(Columns \ UpsertFields, id)

\* C1 witness: a stored item with a positive flip_score has just been
\* re-ingested at a different buy price.
C1_Witness ==
    /\ lastOp.op = "upsert_items"
    /\ \E id \in DOMAIN prev \cap IdsOf(lastOp.arg) :
        /\ prev[id].flip_score # Null
        /\ RatPositive(prev[id].flip_score)
        /\ prev[id].buy_sold_1d # Null
        /\ items[id].buy_price # prev[id].buy_price
        /\ items[id].flip_score = prev[id].flip_score

HistoryBulkFrame ==
    lastOp.op = "update_item_history_bulk" =>
        /\ DOMAIN items = DOMAIN prev
        /\ \A id \in DOMAIN prev :
            /\ SameOn(Columns \ HistoryFields, id)
            /\ id \notin IdsOf(lastOp.arg) => items[id] = prev[id]

RecomputeFrame ==
    lastOp.op = "recompute_derived_metrics" =>
        /\ DOMAIN items = DOMAIN prev
        /\ \A id \in DOMAIN prev : SameOn(Columns \ RecomputeFields, id)

OrderBookBulkFrame ==
    lastOp.op = "update_item_order_book_bulk" =>
        /\ DOMAIN items = DOMAIN prev
        /\ \A id \in DOMAIN prev :
            /\ SameOn(Columns \ OrderBookFields, id)
            /\ id \notin IdsOf(lastOp.arg) => items[id] = prev[id]

\* C2: the write paths touch disjoint field sets, after any sequence of
\* store operations: update_item_history_bulk changes only the sold
\* quantities, competition ratios, price_pressure, yesterday floor/ceiling
\* and velocity_updated; recompute_derived_metrics only the six velocities
\* and flip_score; update_item_order_book_bulk only competition_gold and
\* competition_tiers; items the update does not name are left as they were.
C2_WritePathsDisjoint ==
    /\ HistoryBulkFrame
    /\ RecomputeFrame
    /\ OrderBookBulkFrame

\* C2 witness: a history write has just changed the sold quantities of an
\* item that carried a flip_score and order-book metrics from the other two
\* paths.
C2_Witness ==
    /\ lastOp.op = "update_item_history_bulk"
    /\ \E id \in DOMAIN prev \cap IdsOf(lastOp.arg) :
        /\ prev[id].flip_score # Null
        /\ prev[id].competition_gold # Null
        /\ items[id].buy_sold_1d # prev[id].buy_sold_1d
        /\ items[id].flip_score = prev[id].flip_score
        /\ items[id].competition_gold = prev[id].competition_gold

\* The non-null vendor values a price batch supplies for an id.
SuppliedVendor(batch, id) ==
    {batch[k].vendor_value : k \in {j \in 1..Len(batch) : batch[j].id = id}}
        \ {Null}

\* C3: when upsert_items re-ingests a stored item the stored vendor value is
\* replaced only if the snapshot supplies a non-null vendor value; with a
\* null vendor value in the snapshot the stored one is kept.
C3_VendorMerge ==
    lastOp.op = "upsert_items" =>
        \A id \in DOMAIN prev :
            IF SuppliedVendor(lastOp.arg, id) = {}
            THEN items[id].vendor_value = prev[id].vendor_value
            ELSE items[id].vendor_value \in SuppliedVendor(lastOp.arg, id)

\* C3 witness: one upsert has re-ingested two stored items, replacing the
\* vendor value of the one whose snapshot carries another value and keeping
\* the non-null vendor value of the one whose snapshot carries none.
C3_Witness ==
    /\ lastOp.op = "upsert_items"
    /\ \E id \in DOMAIN prev \cap IdsOf(lastOp.arg) :
        /\ SuppliedVendor(lastOp.arg, id) = {}
        /\ prev[id].vendor_value # Null
        /\ items[id].vendor_value = prev[id].vendor_value
        /\ items[id].price_updated # prev[id].price_updated
    /\ \E id \in DOMAIN prev \cap IdsOf(lastOp.arg) :
        /\ SuppliedVendor(lastOp.arg, id) # {}
        /\ prev[id].vendor_value # Null
        /\ items[id].vendor_value # prev[id].vendor_value

\* C4: recompute_derived_metrics run twice in a row, with no other store
\* operation in between, leaves every stored field of every item as the
\* first run left it.
C4_RecomputeIdempotent ==
    (lastOp.op = "recompute_derived_metrics"
        /\ lastOp.after = "recompute_derived_metrics") => items = prev

\* C4 witness: the second of two consecutive recomputes has run on a store
\* holding an item with a positive flip_score.
C4_Witness ==
    /\ lastOp.op = "recompute_derived_metrics"
    /\ lastOp.after = "recompute_derived_metrics"
    /\ \E id \in DOMAIN items :
        /\ items[id].flip_score # Null
        /\ RatPositive(items[id].flip_score)
        /\ RatPositive(items[id].sell_velocity_7d)

\* An input of the recompute that was never fetched or computed.
MissingInput(row) ==
    \/ row.buy_price = Null
    \/ row.sell_price = Null
    \/ \E f \in SoldFields : row[f] = Null

\* C5: for an item whose stored sold quantities or prices are null,
\* recompute_derived_metrics leaves the velocity fields and flip_score as
\* they were, so a field that was never computed stays null and is never
\* stored as zero.
C5_RecomputeSkipsMissingInputs ==
    lastOp.op = "recompute_derived_metrics" =>
        \A id \in DOMAIN prev :
            MissingInput(prev[id]) => SameOn(RecomputeFields, id)

-----------------------------------------------------------------------------
(* Claims on the history fan-out *)

\* The last task of the gather that fetches item id.
LastTaskOf(id) ==
    CHOOSE k \in DOMAIN bIds :
        bIds[k] = id /\ \A j \in DOMAIN bIds : bIds[j] = id => j <= k

\* C8: fetch_history_batch isolates per-item failures: the call never raises
\* because a fetch raised, the mapping it returns has exactly one key per
\* requested id, an id whose fetch failed maps to the empty list and every
\* other id maps to the history fetched for it (for an id requested twice,
\* the later fetch decides).
C8_BatchIsolatesFailures ==
    /\ bpc # "raised"
    /\ bpc = "returned" =>
        /\ DOMAIN bret = {bIds[k] : k \in DOMAIN bIds}
        /\ \A id \in DOMAIN bret :
            LET out == tout[LastTaskOf(id)]
            IN  bret[id] = IF out.kind = Raised THEN <<>> ELSE out.entries

\* C8 witness: a batch of three ids has returned; one fetch raised, the two
\* others delivered non-empty histories.
C8_Witness ==
    /\ bpc = "returned"
    /\ Len(bIds) = 3
    /\ \E k \in DOMAIN bIds : tout[k].kind = Raised /\ bret[bIds[k]] = <<>>
    /\ \E k \in DOMAIN bIds : tout[k].kind = "ok" /\ bret[bIds[k]] # <<>>
    /\ \E j, k \in DOMAIN bIds :
        j # k /\ bIds[j] # bIds[k] /\ tout[j].kind = "ok" /\ tout[k].kind = "ok"

-----------------------------------------------------------------------------
(* Claims on transactions *)

\* C7: every bulk write is applied atomically relative to readers: the rows
\* a reader's SELECT fetches while a bulk write is under way are those of
\* the table with none of the batch's statements applied, or with all of
\* them, never those of a table with only some applied.
C7_ReadersSeeWholeBatches ==
    (seen.read /\ tx.open) =>
        \/ seen.rows = SelectRows(seen.method, seen.id, tx.base)
        \/ seen.rows = SelectRows(seen.method, seen.id,
                            ApplyStatements(tx.op, tx.base, tx.arg, tx.now))

\* C7 witness: a reader has fetched rows of the two items a bulk write names
\* after the write's first statement and before its second; the writer's
\* table differs from both the table before and the table after the batch.
C7_Witness ==
    /\ seen.read
    /\ tx.open
    /\ Len(tx.arg) = 2
    /\ Len(tx.todo) = 1
    /\ DOMAIN seen.rows = Ids
    /\ tx.work # tx.base
    /\ tx.work # ApplyStatements(tx.op, tx.base, tx.arg, tx.now)
    /\ seen.rows # tx.work

-----------------------------------------------------------------------------
(* Claims on the update cycle *)

\* The six velocities and the flip score of a row are what the recompute
\* derives from the prices, vendor value and sold quantities of that row.
DerivedConsistent(row) ==
    \A f \in RecomputeFields : row[f] = DerivedOfRow(row)[f]

\* The cycle of process p has run to its end: it returned, or the TypeError
\* of a read ended it.
CycleOver(p) == pc[p] \in {"done", "type_error"}

\* C6: when the store operations of two update cycles on the same store
\* interleave, then once both cycles have finished every item's six
\* velocities and flip_score are the values derived from the prices, vendor
\* value and sold quantities stored at that moment.
C6_ConcurrentCyclesConsistent ==
    (\A p \in Procs : pc[p] = "done") =>
        \A id \in DOMAIN items : DerivedConsistent(items[id])

\* The history-derived fields of a row are those of a history update.
HistoryWritten(row, update) ==
    \A f \in HistoryFields \ {"velocity_updated"} : row[f] = update[f]

\* C9: at the end of a deep update cycle, a candidate whose fetched history
\* is empty (missing or failed fetch) has every history-derived field as it
\* was stored before the cycle, and every candidate whose history is not
\* empty has the fields computed from that history.
C9_EmptyHistorySkipsOnlyThatItem ==
    \A p \in Procs :
        (CycleOver(p) /\ cyc[p].deep_refresh) =>
            \A id \in CandidateRows(items) :
                IF upstream[id].kind = "ok" /\ upstream[id].entries # <<>>
                THEN HistoryWritten(items[id],
                                    HistoryUpdateOf(id, upstream[id].entries))
                ELSE id \in DOMAIN cyc[p].stored =>
                        \A f \in HistoryFields :
                            items[id][f] = cyc[p].stored[id][f]

\* C10: at the end of an update cycle with order-book fetching disabled, or
\* of a cheap cycle, competition_gold and competition_tiers of every item are
\* as stored before the cycle, the prices are those of the snapshot fetched,
\* and the velocities and flip_score are refreshed: they are the values
\* derived from what is stored.
C10_OrderBookPathIndependent ==
    \A p \in Procs :
        (CycleOver(p) /\ (~cyc[p].fetch_order_books \/ ~cyc[p].deep_refresh)) =>
            /\ \A id \in DOMAIN cyc[p].stored :
                \A f \in OrderBookFields : items[id][f] = cyc[p].stored[id][f]
            /\ \A k \in DOMAIN cyc[p].items :
                LET ip == cyc[p].items[k]
                IN  /\ ip.id \in DOMAIN items
                    /\ items[ip.id].buy_price = ip.buy_price
                    /\ items[ip.id].sell_price = ip.sell_price
            /\ \A id \in DOMAIN items : DerivedConsistent(items[id])

-----------------------------------------------------------------------------
(* Claims on ranking *)

\* The profit percent and the flip score of a stored item for a timeframe.
ProfitOf(row) ==
    calc_percent_profit(OrZero(row.buy_price), OrZero(row.sell_price),
                        row.vendor_value)

ScoreOf(row, days) ==
    calc_flip_score(OrZero(SoldOfDays(row, days)[1]),
                    OrZero(SoldOfDays(row, days)[2]),
                    OrZero(row.buy_price), ProfitOf(row))

\* The item has all the data ranking needs for the timeframe: prices and
\* order quantities, and strictly positive velocities and sold quantities.
HasVelocityData(row, days) ==
    /\ row.buy_price # Null /\ row.sell_price # Null
    /\ row.buy_quantity # Null /\ row.sell_quantity # Null
    /\ VelocityOfDays(row, days)[1] # Null
    /\ VelocityOfDays(row, days)[2] # Null
    /\ RatPositive(VelocityOfDays(row, days)[1])
    /\ RatPositive(VelocityOfDays(row, days)[2])
    /\ SoldOfDays(row, days)[1] # Null /\ SoldOfDays(row, days)[1][1] > 0
    /\ SoldOfDays(row, days)[2] # Null /\ SoldOfDays(row, days)[2][1] > 0

\* The thresholds of the flips command.
PassesThresholds(row, args) ==
    /\ OrZero(row.sell_price) <= args.max_price
    /\ OrZero(row.sell_sold_7d) >= 7 * args.min_sold
    /\ OrZero(row.buy_sold_7d) >= 7 * args.min_bought
    /\ ~RatLess(ProfitOf(row), RatInt(args.min_profit))
    /\ args.max_profit # Null =>
            ~RatLess(RatInt(args.max_profit[1]), ProfitOf(row))

\* The stored items a ranking with these arguments can show.
Rankable(args) ==
    {id \in DOMAIN items :
        /\ HasVelocityData(items[id], args.days)
        /\ PassesThresholds(items[id], args)
        /\ RatPositive(ScoreOf(items[id], args.days))}

\* C11: for a limit >= 0 the ranked output of cmd_flips holds only items
\* that pass every threshold, is ordered by the flip score of the selected
\* timeframe in non-increasing order, and is the top `limit` of the passing
\* items: it has min(limit, number of passing items) entries and no passing
\* item left out has a strictly higher flip score than one included.
C11_RankedTopByScore ==
    (call.fn = "cmd_flips" /\ call.args.limit >= 0) =>
        LET out == call.results
            args == call.args
            shown == {out[k].item.id : k \in DOMAIN out}
        IN  /\ \A k \in DOMAIN out :
                /\ out[k].item.id \in Rankable(args)
                /\ out[k].flip_score = ScoreOf(items[out[k].item.id], args.days)
            /\ \A j, k \in DOMAIN out :
                j < k => ~RatLess(out[j].flip_score, out[k].flip_score)
            /\ Len(out) = Min(args.limit, Cardinality(Rankable(args)))
            /\ \A id \in Rankable(args) \ shown : \A k \in DOMAIN out :
                ~RatLess(out[k].flip_score, ScoreOf(items[id], args.days))

\* C12: an item lacking velocity data (null or non-positive velocity or sold
\* quantity for the chosen timeframe, or null prices or quantities) never
\* appears in the ranked output of cmd_flips and gets no flip result from
\* calculate_flip_result; every ranked item and every flip result has a
\* strictly positive flip score, profit percent and buy and sell velocity.
C12_NullIsNotZeroInRanking ==
    call.fn = "cmd_flips" =>
        /\ \A k \in DOMAIN call.results :
            /\ HasVelocityData(items[call.results[k].item.id], call.args.days)
            /\ RatPositive(call.results[k].flip_score)
            /\ RatPositive(call.results[k].percent_profit)
            /\ RatPositive(call.results[k].flip_velocity)
        /\ \A id \in DOMAIN items :
            LET result == calculate_flip_result(items[id], call.args.days)
            IN  result # Null =>
                    /\ HasVelocityData(items[id], call.args.days)
                    /\ RatPositive(result[1].flip_score)
                    /\ RatPositive(result[1].percent_profit)
                    /\ RatPositive(result[1].flip_velocity)

\* C12 witness: cmd_flips has run on a store holding a profitable item whose
\* velocities were written as zero by a recompute without history; the item
\* is not ranked and has no flip result, while the same item with history
\* has one in another store.
C12_Witness ==
    /\ call.fn = "cmd_flips"
    /\ ~call.raised
    /\ \E id \in DOMAIN items :
        /\ RatPositive(ProfitOf(items[id]))
        /\ items[id].buy_velocity_1d = Zero
        /\ ~HasVelocityData(items[id], call.args.days)
        /\ calculate_flip_result(items[id], call.args.days) = Null
        /\ \A k \in DOMAIN call.results : call.results[k].item.id # id
        /\ calculate_flip_result(FlipStoreMixed[id], call.args.days) # Null

-----------------------------------------------------------------------------
(* Claims on the numeric core *)

\* calc_percent_profit was called with positive prices and no vendor floor.
ProfitCalledNoFloor ==
    /\ call.fn = "calc_percent_profit"
    /\ call.args[1] # Null /\ call.args[1][1] > 0
    /\ call.args[2] # Null /\ call.args[2][1] > 0
    /\ call.args[3] = Null

\* a <= b on profit percents
RatLeq(a, b) == ~RatLess(b, a)

\* C13 as stated: for all positive b and s1 <= s2, without vendor floor,
\* calc_percent_profit(b, s1) <= calc_percent_profit(b, s2).
C13_MonotoneInSellPrice ==
    ProfitCalledNoFloor =>
        \A s2 \in call.args[2][1]..(MaxPrice + 1) :
            RatLeq(call.out.value,
                   calc_percent_profit(call.args[1][1], s2, Null))

\* C13 amended: for all positive b and s1 <= s2, without vendor floor,
\* calc_percent_profit(b, s1) <= calc_percent_profit(b, s2) unless s2 = s1 + 1
\* is a multiple of 20, where both fees step up by one copper.
C13_MonotoneBetweenFeeSteps ==
    ProfitCalledNoFloor =>
        \A s2 \in call.args[2][1]..(MaxPrice + 1) :
            ~(s2 = call.args[2][1] + 1 /\ s2 % 20 = 0) =>
                RatLeq(call.out.value,
                       calc_percent_profit(call.args[1][1], s2, Null))

\* C13 witness: a call with a sell price one below a multiple of 20 returned
\* a positive margin; the margin at the multiple of 20 is smaller, and the
\* margin two coppers up is not.
C13_Witness ==
    /\ ProfitCalledNoFloor
    /\ (call.args[2][1] + 1) % 20 = 0
    /\ RatPositive(call.out.value)
    /\ RatLess(calc_percent_profit(call.args[1][1], call.args[2][1] + 1, Null),
               call.out.value)
    /\ RatLeq(call.out.value,
              calc_percent_profit(call.args[1][1], call.args[2][1] + 2, Null))

\* revenue and cost as the claim defines them.
ClaimRevenue(s) == s - 1 - Max(1, (5 * s) \div 100) - Max(1, (10 * s) \div 100)

ClaimCost(b) == b + 1

\* The vendor floor is given and v is not above it.
AtOrBelowFloor(v, floor) == floor # Null /\ v <= floor[1]

\* C14: calc_percent_profit returns exactly 0 when either price <= 0, when
\* buy_price <= vendor_floor, when revenue <= cost or when revenue <=
\* vendor_floor; in every other case it returns (revenue - cost) / cost * 100,
\* which is strictly positive; the result is never negative.
C14_ProfitCasesAndFormula ==
    (call.fn = "calc_percent_profit" /\ call.args[1] # Null /\ call.args[2] # Null) =>
        LET b == call.args[1][1]
            s == call.args[2][1]
            floor == call.args[3]
        IN  /\ ~call.out.raised
            /\ call.out.value[1] >= 0
            /\ IF \/ b <= 0
                  \/ s <= 0
                  \/ AtOrBelowFloor(b, floor)
                  \/ ClaimRevenue(s) <= ClaimCost(b)
                  \/ AtOrBelowFloor(ClaimRevenue(s), floor)
               THEN call.out.value = Zero
               ELSE /\ call.out.value[1] * ClaimCost(b)
                        = (ClaimRevenue(s) - ClaimCost(b)) * 100 * call.out.value[2]
                    /\ RatPositive(call.out.value)

\* C14 witness: a call with a vendor floor below the buy price and below the
\* revenue returned a positive margin, and the same prices with the floor at
\* the revenue give 0.
C14_Witness ==
    /\ call.fn = "calc_percent_profit"
    /\ ~call.out.raised
    /\ call.args[3] # Null
    /\ RatPositive(call.out.value)
    /\ call.args[2][1] >= 40
    /\ calc_percent_profit(call.args[1][1], call.args[2][1],
                           Some(ClaimRevenue(call.args[2][1]))) = Zero

\* The history passed to the call has no null integer field.
WithoutNulls(history) ==
    \A k \in DOMAIN history : \A f \in EntryIntFields : history[k][f] # Null

\* The sum of a field over entries[0:n], every present entry counted.
RECURSIVE WindowSum(_, _, _)
WindowSum(history, field, n) ==
    IF n = 0 \/ history = <<>> THEN 0
    ELSE Head(history)[field] + WindowSum(Tail(history), field, n - 1)

\* C15: calc_quantity_sold gives, for each side, entry[0]'s sold count as the
\* 1-day figure, the sum of the sold counts of entries[0:7] as the 7-day
\* figure and of entries[0:30] as the 30-day figure, whether or not some
\* entries have a zero count; an empty history gives six zeros.
C15_SoldQuantitiesOverWindows ==
    (call.fn = "calc_quantity_sold" /\ WithoutNulls(call.args[1])) =>
        LET history == PlainHistory(call.args[1])
        IN  /\ ~call.out.raised
            /\ call.out.value =
                IF history = <<>> THEN <<0, 0, 0, 0, 0, 0>>
                ELSE << history[1].buy_sold, history[1].sell_sold,
                        WindowSum(history, "buy_sold", 7),
                        WindowSum(history, "sell_sold", 7),
                        WindowSum(history, "buy_sold", 30),
                        WindowSum(history, "sell_sold", 30) >>

\* C16: calc_velocity gives, for a non-empty history and each side, the sum
\* of the values of entries[0:7] divided by the number of entries present
\* (at most 7) and by 10000 as the 7-day velocity, and the same with 30 as
\* the 30-day velocity, zero-valued entries counted; an empty history gives
\* six zeros.
C16_VelocityAveragesAllEntries ==
    (call.fn = "calc_velocity" /\ WithoutNulls(call.args[1])) =>
        LET history == PlainHistory(call.args[1])
            average(field, n) ==
                Rat(WindowSum(history, field, n),
                    Min(n, Len(history)) * 10000)
        IN  /\ ~call.out.raised
            /\ IF history = <<>>
               THEN call.out.value = <<Zero, Zero, Zero, Zero, Zero, Zero>>
               ELSE /\ call.out.value[3] = average("buy_value", 7)
                    /\ call.out.value[4] = average("sell_value", 7)
                    /\ call.out.value[5] = average("buy_value", 30)
                    /\ call.out.value[6] = average("sell_value", 30)

\* C17: calc_competition_ratio reads entry[0] only: each side's ratio is
\* listed / sold when the sold count is not 0 and the infinity sentinel when
\* it is 0, whatever the listed count; an empty history gives (0, 0), which
\* is not the infinity sentinel; the result is the one of the history cut
\* to its newest entry.
C17_RatioOfNewestEntry ==
    (call.fn = "calc_competition_ratio" /\ WithoutNulls(call.args[1])) =>
        LET history == PlainHistory(call.args[1])
        IN  /\ ~call.out.raised
            /\ IF history = <<>>
               THEN /\ call.out.value = <<Zero, Zero>>
                    /\ call.out.value[1] # Inf
                    /\ call.out.value[2] # Inf
               ELSE /\ call.out.value[1] =
                        IF history[1].buy_sold = 0 THEN Inf
                        ELSE Rat(history[1].buy_listed, history[1].buy_sold)
                    /\ call.out.value[2] =
                        IF history[1].sell_sold = 0 THEN Inf
                        ELSE Rat(history[1].sell_listed, history[1].sell_sold)
                    /\ call.out = competition_ratio_call(<<call.args[1][1]>>)

\* C17 witness: a history of two days whose newest entry has 100 buy orders
\* listed and none sold, older entry traded on the buy side: the buy ratio
\* is the infinity sentinel and the sell ratio is finite.
C17_Witness ==
    /\ call.fn = "calc_competition_ratio"
    /\ Len(call.args[1]) = 2
    /\ call.args[1][1].buy_sold = Some(0)
    /\ call.args[1][1].buy_listed = Some(100)
    /\ call.args[1][2].buy_sold # Some(0)
    /\ ~call.out.raised
    /\ call.out.value[1] = Inf
    /\ call.out.value[2] = Rat(10, 10)

\* Sum of price * quantity over the listings of a side at the positions in
\* `counted`.
RECURSIVE CountedValue(_, _)
CountedValue(side, counted) ==
    IF counted = {} THEN 0
    ELSE LET k == CHOOSE k \in counted : TRUE
         IN  side[k].unit_price * side[k].quantity
                + CountedValue(side, counted \ {k})

\* What the depth scorer owes for a side whose counted positions are given:
\* (0, 0) without a bound or without listings.
DepthOf(side, bound, counted) ==
    IF bound = Null \/ side = <<>> THEN <<Zero, 0>>
    ELSE <<Rat(CountedValue(side, counted), 10000), Cardinality(counted)>>

\* C18: the depth scorer counts, on the buy side, exactly the listings
\* priced strictly above the floor, and on the sell side exactly those with
\* 0 < price < ceiling; tiers is their number and gold the sum of their
\* price * quantity / 10000; a listing at the floor or ceiling is not
\* counted; an absent floor (ceiling) or an empty side gives (0, 0).
C18_DepthCountsStrictlyInside ==
    call.fn = "calc_order_book_competition" =>
        LET buys == call.args[1].buys
            sells == call.args[1].sells
            floor == call.args[2]
            ceiling == call.args[3]
            buy_counted ==
                {k \in DOMAIN buys : floor # Null /\ buys[k].unit_price > floor[1]}
            sell_counted ==
                {k \in DOMAIN sells :
                    /\ ceiling # Null
                    /\ 0 < sells[k].unit_price
                    /\ sells[k].unit_price < ceiling[1]}
        IN  /\ ~call.out.raised
            /\ <<call.out.value[1], call.out.value[2]>>
                    = DepthOf(buys, floor, buy_counted)
            /\ <<call.out.value[3], call.out.value[4]>>
                    = DepthOf(sells, ceiling, sell_counted)

\* C18 witness: floor 100 with buy listings (100,10), (105,20), (110,30)
\* gave 2 tiers and (105*20 + 110*30) / 10000 gold, and a sell side with a
\* listing at the ceiling 110 and one below it gave 1 tier.
C18_Witness ==
    /\ call.fn = "calc_order_book_competition"
    /\ call.args[1].buys = <<Listing(100, 10), Listing(105, 20), Listing(110, 30)>>
    /\ call.args[1].sells = <<Listing(110, 30), Listing(105, 20)>>
    /\ call.args[2] = Some(100)
    /\ call.args[3] = Some(110)
    /\ call.out.value = <<Rat(105 * 20 + 110 * 30, 10000), 2,
                          Rat(105 * 20, 10000), 1>>

\* calc_flip_score was called with quantities and a price that are not null.
ScoreCalled ==
    /\ call.fn = "calc_flip_score"
    /\ call.args[1] # Null
    /\ call.args[2] # Null
    /\ call.args[3] # Null

\* C19: calc_flip_score returns 0 whenever percent_profit <= 0 and otherwise
\* min(buy_sold_qty, sell_sold_qty) * buy_price * percent_profit / 100; hence
\* (quantities and price not negative) the score is never below the 0 of an
\* unprofitable flip, it is 0 when either quantity is 0, and swapping the
\* quantities does not change it.
C19_ScoreFormula ==
    ScoreCalled =>
        LET bq == call.args[1][1]
            sq == call.args[2][1]
            bp == call.args[3][1]
            pp == call.args[4]
            least == IF bq <= sq THEN bq ELSE sq
        IN  /\ ~call.out.raised
            /\ IF pp[1] <= 0 THEN call.out.value = Zero
               ELSE call.out.value = Rat(least * bp * pp[1], 100 * pp[2])
            /\ \A worse \in PercentProfits :
                    worse[1] <= 0 =>
                        RatLeq(flip_score_call(Some(bq), Some(sq), Some(bp), worse).value,
                               call.out.value)
            /\ (bq = 0 \/ sq = 0) => call.out.value = Zero
            /\ call.out = flip_score_call(Some(sq), Some(bq), Some(bp), pp)

\* C19 witness: calc_flip_score(100, 50, 1000, 10.0) returned 5000, which
\* is the score of the swapped quantities and above the 0 of the same flip
\* at -5 percent.
C19_Witness ==
    /\ ScoreCalled
    /\ call.args = <<Some(100), Some(50), Some(1000), RatInt(10)>>
    /\ call.out.value = RatInt(5000)
    /\ flip_score_call(Some(50), Some(100), Some(1000), RatInt(10)).value = RatInt(5000)
    /\ flip_score_call(Some(100), Some(50), Some(1000), RatInt(-5)).value = Zero

\* The functions of the numeric core that take a history.
HistoryFunctions ==
    {"calc_quantity_sold", "calc_velocity", "calc_competition_ratio",
     "calc_price_pressure", "get_yesterday_floor_prices"}

\* The sentinel of a function for an empty history.
EmptySentinel(fn) ==
    CASE fn = "calc_quantity_sold" -> <<0, 0, 0, 0, 0, 0>>
      [] fn = "calc_velocity" -> <<Zero, Zero, Zero, Zero, Zero, Zero>>
      [] fn = "calc_competition_ratio" -> <<Zero, Zero>>
      [] fn = "calc_price_pressure" -> Zero
      [] fn = "get_yesterday_floor_prices" -> <<Null, Null>>

\* C20: no function of the numeric core raises when given a null price, an
\* empty history, or zero or null quantities in a history entry; an empty
\* history gives the function's sentinel, a null price gives a margin and a
\* score of 0, and an absent floor and ceiling give a depth of all zeros.
C20_NumericCoreTotal ==
    call.fn # "none" =>
        /\ ~call.out.raised
        /\ (call.fn \in HistoryFunctions /\ call.args[1] = <<>>) =>
                call.out.value = EmptySentinel(call.fn)
        /\ (call.fn = "calc_percent_profit"
                /\ (call.args[1] = Null \/ call.args[2] = Null)) =>
                call.out.value = Zero
        /\ (call.fn = "calc_flip_score" /\ call.args[3] = Null) =>
                call.out.value = Zero
        /\ (call.fn = "calc_order_book_competition"
                /\ call.args[2] = Null /\ call.args[3] = Null) =>
                call.out.value = <<Zero, 0, Zero, 0>>

\* An average price that is null or not positive.
NoPrice(avg) == avg = Null \/ avg[1] <= 0

\* sell average minus buy average of an entry with both averages.
SpreadOf(entry) == RatSub(entry.sell_price_avg, entry.buy_price_avg)

\* C21: calc_price_pressure returns 0 for fewer than 2 entries, when any of
\* today's or yesterday's average prices is null or <= 0, or when
\* yesterday's spread is <= 0; otherwise (spread_yesterday - spread_today) /
\* spread_yesterday + delisted_ratio, delisted_ratio being today's delisted
\* over today's sold, or 0 when nothing was sold; the result is positive
\* whenever the spread narrowed.
C21_PressureCasesAndFormula ==
    (call.fn = "calc_price_pressure" /\ WithoutNulls(call.args[1])) =>
        LET history == PlainHistory(call.args[1])
        IN  /\ ~call.out.raised
            /\ IF Len(history) < 2 THEN call.out.value = Zero
               ELSE LET today == history[1]
                        yesterday == history[2]
                    IN  IF \/ NoPrice(today.buy_price_avg)
                           \/ NoPrice(today.sell_price_avg)
                           \/ NoPrice(yesterday.buy_price_avg)
                           \/ NoPrice(yesterday.sell_price_avg)
                        THEN call.out.value = Zero
                        ELSE IF SpreadOf(yesterday)[1] <= 0
                        THEN call.out.value = Zero
                        ELSE LET sold == today.buy_sold + today.sell_sold
                                 delisted == today.buy_delisted + today.sell_delisted
                                 delisted_ratio ==
                                    IF sold = 0 THEN Zero ELSE Rat(delisted, sold)
                             IN  /\ call.out.value =
                                        RatAdd(RatDiv(RatSub(SpreadOf(yesterday),
                                                             SpreadOf(today)),
                                                      SpreadOf(yesterday)),
                                               delisted_ratio)
                                 /\ RatLess(SpreadOf(today), SpreadOf(yesterday))
                                        => RatPositive(call.out.value)

\* C21 witness: today's spread of 90 against yesterday's 106 with 3 of 15
\* delisted gave 16/106 + 3/15, and the two days in the other order give a
\* negative pressure.
C21_Witness ==
    /\ call.fn = "calc_price_pressure"
    /\ PlainHistory(call.args[1]) = <<EntryTraded, EntryBuyOnly>>
    /\ call.out.value = RatAdd(Rat(16, 106), Rat(3, 15))
    /\ RatLess(price_pressure_call(PyHistory(<<EntryBuyOnly, EntryTraded>>, {})).value,
               Zero)

-----------------------------------------------------------------------------
(* Claims on the retry loop *)

\* _request is running or over on a client with max_retries >= 0.
RequestCalled == call.fn = "_request" /\ call.max_retries >= 0

\* The positions of the log at which a request was sent.
GetsOf(log) == {k \in DOMAIN log : log[k].ev = "get"}

\* The answer failed in a way the policy retries.
Retriable(answer) == answer = <<>> \/ answer[1] \in {429, 500, 502, 503, 504}

\* The number of requests sent before position k of the log.
SentBefore(log, k) == Cardinality({j \in GetsOf(log) : j < k})

\* The backoff sleeps between the request at position k and the next one
\* (or the end of the log).
SleepsAfter(log, k) ==
    {j \in DOMAIN log :
        /\ j > k
        /\ log[j].ev = "sleep"
        /\ log[j].why = "backoff"
        /\ \A g \in GetsOf(log) : g > k => g > j}

\* C22: with max_retries >= 0, a request is sent again if and only if the
\* previous attempt failed with a retriable status or a transport error and
\* fewer than max_retries retries have been made; retry k (from 0) is
\* preceded by one backoff sleep of backoff_base * 2^k (none when that is
\* 0) and no other; a success is returned and any other error raised
\* without a further request or backoff; at most max_retries + 1 requests
\* are sent, and the call goes on until it has returned a response or
\* raised the last error.
C22_RetryPolicy ==
    RequestCalled =>
        LET log == call.log
            gets == GetsOf(log)
            last == IF gets = {} THEN 0 ELSE CHOOSE k \in gets : \A j \in gets : j <= k
        IN  /\ Cardinality(gets) <= call.max_retries + 1
            /\ \A k \in gets :
                LET retried == SentBefore(log, k)
                    again == \E j \in gets : j > k
                    due == call.backoff_base * 2^retried
                IN  /\ again =>
                        /\ Retriable(log[k].answer)
                        /\ retried < call.max_retries
                        /\ IF due > 0
                           THEN \E j \in SleepsAfter(log, k) :
                                    /\ SleepsAfter(log, k) = {j}
                                    /\ log[j].seconds = due
                           ELSE SleepsAfter(log, k) = {}
                    /\ (k = last /\ Retriable(log[k].answer)
                            /\ retried < call.max_retries) =>
                            /\ call.out = Pending
                            /\ call.at \in {"backoff", "get"}
                    /\ (~Retriable(log[k].answer) \/ retried >= call.max_retries) =>
                            /\ k = last
                            /\ call.at = "ended"
                            /\ \/ call.out = ReturnedResponse(log[k].answer)
                               \/ call.out = RaisedError(log[k].answer)
                            /\ (~Retriable(log[k].answer)
                                    /\ log[k].answer[1] \in 200..299) =>
                                    call.out.kind = "returned"
                            /\ (Retriable(log[k].answer) \/ log[k].answer[1] >= 400) =>
                                    call.out.kind = "raised"
                            /\ SleepsAfter(log, k) = {}
            /\ call.at = "ended" <=> call.out # Pending
            /\ call.at # "ended" => ENABLED RequestNext

\* C22 witness: a client with max_retries 2 and backoff_base 0.01 was
\* answered 429 and then 200: two requests, one sleep of 0.01 between them,
\* and the response returned.
C22_Witness ==
    /\ RequestCalled
    /\ call.max_retries = 2
    /\ call.backoff_base = 1
    /\ call.rate_limit_delay = 0
    /\ call.log = << [ev |-> "get", answer |-> <<429>>],
                     [ev |-> "sleep", why |-> "backoff", seconds |-> 1],
                     [ev |-> "get", answer |-> <<200>>] >>
    /\ call.out = ReturnedResponse(<<200>>)

-----------------------------------------------------------------------------
(* Claims on the watch loop *)

\* The clock reading at the start of the most recent deep cycle before
\* cycle k of the watch loop.
RECURSIVE LastDeepBefore(_, _)
LastDeepBefore(cycles, k) ==
    IF cycles[k - 1].deep_refresh THEN cycles[k - 1].now
    ELSE LastDeepBefore(cycles, k - 1)

\* C23: the first cycle of the watch loop is a deep refresh; a later cycle is
\* a deep refresh if and only if at least deep_refresh_seconds lie between
\* the clock reading at the start of the most recent deep cycle and the one
\* at the start of this cycle; the cycle runs as what the loop decided, never
\* as a full update; the cycle of the update command is always deep.
C23_WatchCadence ==
    /\ call.fn = "_run_watch_loop" =>
        /\ \A k \in DOMAIN call.cycles :
            call.cycles[k].deep_refresh <=>
                \/ k = 1
                \/ call.cycles[k].now - LastDeepBefore(call.cycles, k)
                        >= call.deep_refresh_seconds
        /\ call.cycles # <<>> =>
            /\ cyc[1].started
            /\ cyc[1].deep_refresh = call.cycles[Len(call.cycles)].deep_refresh
            /\ ~cyc[1].full
    /\ call.fn = "cmd_update" => cyc[1].started /\ cyc[1].deep_refresh

\* C23 witness: with interval 60 and deep refresh every 180 seconds, the
\* cycles started at 0, 60, 120, 180 ran deep, cheap, cheap, deep.
C23_Witness ==
    /\ call.fn = "_run_watch_loop"
    /\ call.interval = 60
    /\ call.deep_refresh_seconds = 180
    /\ call.cycles = << [now |-> 0, deep_refresh |-> TRUE],
                        [now |-> 60, deep_refresh |-> FALSE],
                        [now |-> 120, deep_refresh |-> FALSE],
                        [now |-> 180, deep_refresh |-> TRUE] >>
    /\ pc[1] = "done"

-----------------------------------------------------------------------------
(* Claims on what the recompute stores *)

\* The stored inputs of the recompute are all present on the row (the
\* vendor value may be absent).
InputsPresent(row) ==
    /\ row.buy_price # Null
    /\ row.sell_price # Null
    /\ \A f \in SoldFields : row[f] # Null

\* sold / days * price / 10000
VelocityOver(sold, days, price) == Rat(sold[1] * price[1], days * 10000)

\* C24: after recompute_derived_metrics, for every stored item whose prices
\* and sold quantities are present, the 1-day velocity is sold_1d * price /
\* 10000, the 7-day velocity (sold_7d / 7) * price / 10000, the 30-day
\* velocity (sold_30d / 30) * price / 10000, buy side with the buy price and
\* sell side with the sell price, and flip_score is calc_flip_score of the
\* 1-day sold quantities, the buy price and calc_percent_profit of the
\* stored prices and vendor value.
C24_RecomputeStoresFromPrices ==
    lastOp.op = "recompute_derived_metrics" =>
        \A id \in DOMAIN items :
            InputsPresent(items[id]) =>
                LET row == items[id]
                IN  /\ row.buy_velocity_1d
                        = VelocityOver(row.buy_sold_1d, 1, row.buy_price)
                    /\ row.sell_velocity_1d
                        = VelocityOver(row.sell_sold_1d, 1, row.sell_price)
                    /\ row.buy_velocity_7d
                        = VelocityOver(row.buy_sold_7d, 7, row.buy_price)
                    /\ row.sell_velocity_7d
                        = VelocityOver(row.sell_sold_7d, 7, row.sell_price)
                    /\ row.buy_velocity_30d
                        = VelocityOver(row.buy_sold_30d, 30, row.buy_price)
                    /\ row.sell_velocity_30d
                        = VelocityOver(row.sell_sold_30d, 30, row.sell_price)
                    /\ row.flip_score
                        = calc_flip_score(
                            row.buy_sold_1d[1], row.sell_sold_1d[1],
                            row.buy_price[1],
                            calc_percent_profit(row.buy_price[1], row.sell_price[1],
                                                row.vendor_value))

\* C24 witness: a recompute has run on an item whose velocities and
\* flip_score had been computed before and whose sold quantities are
\* unchanged: the prices moved since, and the stored 1-day velocities and
\* the flip_score changed with them.
C24_Witness ==
    /\ lastOp.op = "recompute_derived_metrics"
    /\ \E id \in DOMAIN items :
        /\ InputsPresent(items[id])
        /\ prev[id].flip_score # Null
        /\ RatPositive(prev[id].flip_score)
        /\ prev[id].buy_velocity_1d
                = VelocityOver(items[id].buy_sold_1d, 1, Some(100))
        /\ items[id].buy_price = Some(110)
        /\ items[id].buy_velocity_1d # prev[id].buy_velocity_1d
        /\ items[id].sell_velocity_1d # prev[id].sell_velocity_1d
        /\ items[id].flip_score # prev[id].flip_score

-----------------------------------------------------------------------------
(* Claims on reading back *)

\* C25: whatever writes were committed before, get_item(id) of a stored id
\* succeeds and returns the stored row as an item record, every keyword
\* _row_to_item passes (flip_score included) being a field of Item; get_item
\* of an id that was never upserted returns None.
C25_ReadBackRoundTrip ==
    (seen.read /\ seen.method = "get_item") =>
        IF seen.id \in DOMAIN items
        THEN /\ seen.result = "items"
             /\ seen.rows = [i \in {seen.id} |-> items[i]]
             /\ RowToItemKeywords \subseteq ItemFields
        ELSE seen.result = "no rows"

-----------------------------------------------------------------------------
(* Claims on the end of a cycle *)

\* C26: in a cycle run on its own, from the return of
\* recompute_derived_metrics to the end of the cycle (deep or cheap, with or
\* without order books) every stored item's six velocities and flip_score
\* are what the recompute derives from the prices, vendor value and sold
\* quantities stored at that moment: the recompute runs after the cycle's
\* last write to its inputs and the order-book stage leaves them alone.
C26_CycleEndsConsistent ==
    pc[1] \in {"order_books", "done"} =>
        \A id \in DOMAIN items : DerivedConsistent(items[id])

\* C26 witness: a cycle has completed in which the upsert moved the buy price
\* of an item stored before the cycle, and the item's flip_score and buy
\* velocity are no longer those stored when the cycle began.
C26_Witness ==
    /\ pc[1] = "done"
    /\ \E id \in DOMAIN items \cap DOMAIN cyc[1].stored :
        /\ items[id].buy_price # cyc[1].stored[id].buy_price
        /\ cyc[1].stored[id].flip_score # Null
        /\ RatPositive(cyc[1].stored[id].flip_score)
        /\ items[id].flip_score # cyc[1].stored[id].flip_score
        /\ items[id].buy_velocity_7d # cyc[1].stored[id].buy_velocity_7d

-----------------------------------------------------------------------------
(* Claims on the fan-outs *)

\* The tasks inside `async with semaphore`, their fetch under way.
InFlight == Cardinality({k \in DOMAIN tpc : tpc[k] = "fetching"})

\* C27: during fetch_history_batch with max_concurrent >= 1, and likewise
\* during fetch_order_books_batch over its chunks, never more than
\* max_concurrent fetches are in flight, in whatever order the fetches start
\* and finish: the fetches in flight and the free slots of the semaphore add
\* up to max_concurrent.
C27_AtMostMaxConcurrentInFlight ==
    bMax >= 1 =>
        /\ InFlight <= bMax
        /\ bpc = "gathering" => InFlight + sem = bMax

\* C27 witness: of the four chunks of a fetch_order_books_batch bounded by
\* two, one is done, two are in flight and the fourth waits for a slot.
C27_Witness ==
    /\ call.fn = "fetch_order_books_batch"
    /\ bMax = 2
    /\ bpc = "gathering"
    /\ Len(tpc) = 4
    /\ InFlight = 2
    /\ sem = 0
    /\ \E k \in DOMAIN tpc : tpc[k] = "done"
    /\ \E k \in DOMAIN tpc : tpc[k] = "waiting"

\* C28: the history fan-out of a deep cycle, called with
\* max_concurrent=history_workers for history_workers >= 0 and a non-empty
\* list of ids, runs with max(1, history_workers) slots and completes: while
\* it has not returned, a fetch is in flight, a task can start, or the
\* gather can return.
C28_HistoryFanOutCompletes ==
    (call.fn = "fetch_history_batch" /\ bpc = "gathering") =>
        /\ InFlight + sem = Max(1, bMax)
        /\ ENABLED FanOutNext

-----------------------------------------------------------------------------
(* Claims on the life of a row *)

\* The statements of a bulk update that address a stored id.
Addressed(updates, tbl) == SelectSeq(updates, LAMBDA u : u.id \in DOMAIN tbl)

\* C29: whatever the sequence of store operations (an update cycle writes
\* through these five methods only), no stored id ever disappears; after
\* upsert_items the stored ids are those stored before and those of the
\* snapshot; update_item_history_bulk, update_item_order_book_bulk,
\* update_vendor_values and recompute_derived_metrics leave the set of
\* stored ids as it was, and the statements of an update that address ids
\* not stored change nothing: the table is the one the statements addressed
\* to stored ids alone produce.
C29_RowLifecycle ==
    /\ DOMAIN prev \subseteq DOMAIN items
    /\ lastOp.op = "upsert_items" =>
            DOMAIN items = DOMAIN prev \cup IdsOf(lastOp.arg)
    /\ lastOp.op # "upsert_items" => DOMAIN items = DOMAIN prev
    /\ lastOp.op = "update_item_history_bulk" =>
            items = update_item_history_bulk(prev, Addressed(lastOp.arg, prev),
                                             clock - 1)
    /\ lastOp.op = "update_item_order_book_bulk" =>
            items = update_item_order_book_bulk(prev, Addressed(lastOp.arg, prev))
    /\ lastOp.op = "update_vendor_values" =>
            items = update_vendor_values(prev,
                        [i \in DOMAIN lastOp.arg \cap DOMAIN prev |-> lastOp.arg[i]])

\* C29 witness: a vendor value update naming a stored id and an id that was
\* never upserted has changed the stored row and created none.
C29_Witness ==
    /\ lastOp.op = "update_vendor_values"
    /\ \E id \in DOMAIN lastOp.arg : id \notin DOMAIN items
    /\ \E id \in DOMAIN lastOp.arg \cap DOMAIN prev :
            items[id].vendor_value # prev[id].vendor_value
    /\ DOMAIN items = DOMAIN prev
    /\ DOMAIN items # {}

-----------------------------------------------------------------------------
(* Claims on the candidate selection *)

\* The limit a cycle passes to get_top_profit_candidates.
CandidateLimit(p) == IF cyc[p].full THEN 999999 ELSE 500

\* What the SELECT of get_top_profit_candidates picks from the store is the
\* eligible items (non-null prices, sell_price > buy_price > 0), at most
\* `limit` of them, by flip_score descending with null as 0 and ties by the
\* larger spread; no eligible item left out has a strictly higher flip_score
\* than one picked.
SelectionSound(ids, tbl, limit) ==
    /\ \A k \in DOMAIN ids :
        /\ ids[k] \in DOMAIN tbl
        /\ tbl[ids[k]].buy_price # Null /\ tbl[ids[k]].sell_price # Null
        /\ tbl[ids[k]].sell_price[1] > tbl[ids[k]].buy_price[1]
        /\ tbl[ids[k]].buy_price[1] > 0
    /\ \A j, k \in DOMAIN ids : j # k => ids[j] # ids[k]
    /\ Len(ids) = Min(limit, Cardinality(CandidateRows(tbl)))
    /\ \A j, k \in DOMAIN ids : j < k => ~SortsBefore(tbl[ids[k]], tbl[ids[j]])
    /\ \A id \in CandidateRows(tbl) \ {ids[k] : k \in DOMAIN ids} :
        \A k \in DOMAIN ids :
            ~RatLess(CoalesceScore(tbl[ids[k]]), CoalesceScore(tbl[id]))

\* After the history stage of a deep cycle: history was fetched for selected
\* items only, and the items outside the selection have the history-derived
\* fields they had when the cycle began (none, for a row the cycle created).
OutsideSelectionKept(p) ==
    LET selected == {cyc[p].item_ids[k] : k \in DOMAIN cyc[p].item_ids}
    IN  /\ DOMAIN cyc[p].history_data \subseteq selected
        /\ \A id \in DOMAIN items \ selected : \A f \in HistoryFields :
            items[id][f] = IF id \in DOMAIN cyc[p].stored
                           THEN cyc[p].stored[id][f] ELSE Null

\* C30: when a deep cycle selects its candidates, get_top_profit_candidates
\* returns the eligible stored items (non-null prices, sell_price >
\* buy_price > 0), at most 500 in a non-full cycle, ordered by stored
\* flip_score descending (null as 0), ties by the larger spread; history is
\* fetched for these items only, and the items outside the selection keep
\* their history-derived fields in that cycle.
C30_CandidateSelection ==
    /\ pc[1] = "candidates" =>
        LET candidates == get_top_profit_candidates(items, CandidateLimit(1))
        IN  /\ ~candidates.raised
            /\ SelectionSound(candidates.ids, items, CandidateLimit(1))
    /\ (cyc[1].started /\ cyc[1].deep_refresh
            /\ pc[1] \in {"recompute_read", "recompute_write", "order_books", "done"})
        => OutsideSelectionKept(1)

====
